---------------------------- MODULE Spec2Model ----------------------------
(***************************************************************************)
(* DevCamper: the advancedResults middleware (filtering, sorting, field    *)
(* selection and pagination of the list endpoints), the route handler     *)
(* that sends its envelope, and the process-level unhandledRejection      *)
(* handler of server.js; the protect and authorize middlewares, the       *)
(* bootcamp and review handlers behind them, the recomputation of a       *)
(* bootcamp's average rating, the photo upload, the login, forgotPassword *)
(* and resetPassword handlers of the auth controller, and the earlier     *)
(* getBootcamps that builds its query itself.                              *)
(*                                                                         *)
(* Strings are sequences of one-character strings, so that                 *)
(* JSON.stringify, the operator regex, JSON.parse and parseInt are         *)
(* modelled by what they do to the characters.                             *)
(***************************************************************************)
EXTENDS Integers, Sequences, FiniteSets, Bags, TLC

VARIABLES
  docs,      \* the collection: documents in insertion (createdAt) order
  process,   \* "running" | "exited"  (the node process of server.js)
  pc,        \* position of the request inside advancedResults
  req,       \* the request being handled: req.query as the middleware
             \* leaves it, and the query of req.url, which nothing writes
  findArg,   \* the filter predicate passed to model.find
  plan,      \* locals of advancedResults: fields, sortBy, page, limit, ...
  total,     \* const total = await model.countDocuments()
  resp,      \* what the caller has received
  failure,   \* why the promise of advancedResults rejected
  queries,   \* queries issued against the store: <<count, data>>
  prev,      \* the previous request's outcome (history, two-request runs)
  users,     \* the users collection: id -> [role, email, password,
             \* resetPasswordToken, resetPasswordExpire]
  bootcamps, \* the bootcamps collection as the private routes see it:
             \* _id = position, [user, name, photo, averageRating, live]
  reviews,   \* the reviews collection: [bootcamp, user, rating, live]
  calls,     \* requests to private routes, by connection
  tasks,     \* getAverageRating calls that nothing awaits
  auth,      \* requests to the auth controller, by connection
  now,       \* Date.now(), in units of five minutes
  mails,     \* the reset tokens crypto.randomBytes has produced, in
             \* order: [user, at, fate, used], fate being "pending",
             \* "delivered", "rejected" (sendEmail threw) or "failed" (the
             \* request has been answered with 500)
  uploads    \* the names of the files in FILE_UPLOAD_PATH

\* the variables of the private routes
apiVars == <<users, bootcamps, reviews, calls, tasks>>

\* the variables of the list endpoints
listVars == <<docs, process, pc, req, findArg, plan, total, resp, failure,
              queries, prev>>

\* the variables of the auth controller and of the file upload
sideVars == <<auth, now, mails, uploads>>

vars == <<docs, process, pc, req, findArg, plan, total, resp, failure,
          queries, prev, users, bootcamps, reviews, calls, tasks, auth, now,
          mails, uploads>>

----------------------------------------------------------------------------
(* Bounds of the model *)

MaxLen == 3     \* longest filter value, in characters
MaxDocs == 3    \* most documents in the collection
MaxNum == 2     \* page and limit texts are the integers -1..MaxNum

----------------------------------------------------------------------------
(* Characters and words *)

Q == "\""
BS == "\\"

Digits == <<"0", "1", "2", "3", "4", "5", "6", "7", "8", "9">>

IsDigit(c) == \E d \in 1..10 : Digits[d] = c

DigitVal(c) == (CHOOSE d \in 1..10 : Digits[d] = c) - 1

Letters == {"A", "a", "c", "d", "e", "g", "i", "l", "m", "n", "o", "p", "r",
            "s", "t", "u"}

\* \w of the regex: [A-Za-z0-9_]
IsWordChar(c) == c \in Letters \/ IsDigit(c) \/ c = "_"

\* s starts with word w at position i
StartsAt(s, i, w) ==
  /\ i + Len(w) - 1 <= Len(s)
  /\ \A k \in 1..Len(w) : s[i + k - 1] = w[k]

\* str.split(sep) for a one-character separator
RECURSIVE Split(_, _)
Split(s, sep) ==
  IF \A k \in 1..Len(s) : s[k] # sep
  THEN <<s>>
  ELSE LET p == CHOOSE k \in 1..Len(s) :
                  s[k] = sep /\ \A j \in 1..(k - 1) : s[j] # sep
       IN <<SubSeq(s, 1, p - 1)>> \o Split(SubSeq(s, p + 1, Len(s)), sep)

\* arr.join(sep)
RECURSIVE Join(_, _)
Join(ws, sep) ==
  IF ws = <<>> THEN <<>>
  ELSE IF Len(ws) = 1 THEN ws[1]
  ELSE ws[1] \o <<sep>> \o Join(Tail(ws), sep)

----------------------------------------------------------------------------
(* req.query as the qs parser leaves it: an ordered mapping from a key to  *)
(* a string, or to a nested object of strings (field[op]=v).               *)

StrV(s) == [t |-> "str", v |-> s, m |-> <<>>]
ObjV(members) == [t |-> "obj", v |-> <<>>, m |-> members]
Member(k, val) == [key |-> k, val |-> val]

Keys(obj) == {obj[i].key : i \in 1..Len(obj)}
HasKey(obj, k) == k \in Keys(obj)
Get(obj, k) == obj[CHOOSE i \in 1..Len(obj) : obj[i].key = k].val

\* delete obj[k]
RECURSIVE Delete(_, _)
Delete(obj, k) ==
  IF obj = <<>> THEN <<>>
  ELSE IF Head(obj).key = k THEN Delete(Tail(obj), k)
  ELSE <<Head(obj)>> \o Delete(Tail(obj), k)

----------------------------------------------------------------------------
(* JSON.stringify of such a mapping *)

RECURSIVE QuoteChars(_)
QuoteChars(s) ==
  IF s = <<>> THEN <<>>
  ELSE LET c == Head(s)
       IN (IF c = Q \/ c = BS THEN <<BS, c>> ELSE <<c>>) \o QuoteChars(Tail(s))

Quote(s) == <<Q>> \o QuoteChars(s) \o <<Q>>

RECURSIVE StringifyValue(_)
RECURSIVE StringifyMembers(_)
StringifyMembers(obj) ==
  IF obj = <<>> THEN <<>>
  ELSE Quote(Head(obj).key) \o <<":">> \o StringifyValue(Head(obj).val)
       \o (IF Tail(obj) = <<>> THEN <<>> ELSE <<",">>)
       \o StringifyMembers(Tail(obj))

StringifyValue(val) ==
  IF val.t = "str" THEN Quote(val.v)
  ELSE <<"{">> \o StringifyMembers(val.m) \o <<"}">>

JSONStringify(obj) == StringifyValue(ObjV(obj))

----------------------------------------------------------------------------
(* queryStr.replace(/\b(gt|gte|lt|lte|in)\b/g, (match) => `$${match}`)      *)

Tokens == << <<"g", "t">>, <<"g", "t", "e">>, <<"l", "t">>,
             <<"l", "t", "e">>, <<"i", "n">> >>

\* the regex written without its \b
NoBoundary(s, i) == TRUE

\* \b before position i: exactly one of s[i-1], s[i] is a word character
BoundaryAt(s, i) ==
  LET before == i > 1 /\ i - 1 <= Len(s) /\ IsWordChar(s[i - 1])
      after == i >= 1 /\ i <= Len(s) /\ IsWordChar(s[i])
  IN before # after

\* the alternative the regex matches at position i (0: none); alternatives
\* are tried in the order written
TokenMatchAt(s, i) ==
  LET ok(k) == /\ StartsAt(s, i, Tokens[k])
               /\ BoundaryAt(s, i)
               /\ BoundaryAt(s, i + Len(Tokens[k]))
  IN IF \E k \in 1..Len(Tokens) : ok(k)
     THEN CHOOSE k \in 1..Len(Tokens) : ok(k) /\ \A j \in 1..(k - 1) : ~ok(j)
     ELSE 0

RECURSIVE ReplaceFrom(_, _)
ReplaceFrom(s, i) ==
  IF i > Len(s) THEN <<>>
  ELSE LET k == TokenMatchAt(s, i)
       IN IF k = 0
          THEN <<s[i]>> \o ReplaceFrom(s, i + 1)
          ELSE <<"$">> \o Tokens[k] \o ReplaceFrom(s, i + Len(Tokens[k]))

ReplaceOperators(s) == ReplaceFrom(s, 1)

----------------------------------------------------------------------------
(* JSON.parse, for documents made of objects and strings.  A result is     *)
(* [ok, val, i]: whether the text parsed, the value, the next position.    *)

ParseFail == [ok |-> FALSE, val |-> StrV(<<>>), i |-> 0]

\* the characters of a string literal whose opening quote is before i
RECURSIVE ParseChars(_, _, _)
ParseChars(s, i, acc) ==
  IF i > Len(s) THEN ParseFail
  ELSE IF s[i] = Q THEN [ok |-> TRUE, val |-> StrV(acc), i |-> i + 1]
  ELSE IF s[i] = BS
       THEN IF i + 1 <= Len(s) /\ s[i + 1] \in {Q, BS, "/"}
            THEN ParseChars(s, i + 2, Append(acc, s[i + 1]))
            ELSE IF i + 1 <= Len(s) /\ s[i + 1] \in {"b", "f", "n", "r", "t"}
            THEN ParseChars(s, i + 2, Append(acc, "\\" \o s[i + 1]))
            ELSE ParseFail
  ELSE ParseChars(s, i + 1, Append(acc, s[i]))

ParseString(s, i) ==
  IF i <= Len(s) /\ s[i] = Q THEN ParseChars(s, i + 1, <<>>) ELSE ParseFail

RECURSIVE ParseValue(_, _)
RECURSIVE ParseMembers(_, _, _)
\* members of an object, the position i being that of a key
ParseMembers(s, i, acc) ==
  LET k == ParseString(s, i)
  IN IF ~k.ok \/ k.i > Len(s) \/ s[k.i] # ":" THEN ParseFail
     ELSE LET v == ParseValue(s, k.i + 1)
              got == Append(acc, Member(k.val.v, v.val))
          IN IF ~v.ok \/ v.i > Len(s) THEN ParseFail
             ELSE IF s[v.i] = "}"
                  THEN [ok |-> TRUE, val |-> ObjV(got), i |-> v.i + 1]
             ELSE IF s[v.i] = ","
                  THEN ParseMembers(s, v.i + 1, got)
             ELSE ParseFail

ParseValue(s, i) ==
  IF i > Len(s) THEN ParseFail
  ELSE IF s[i] = Q THEN ParseString(s, i)
  ELSE IF s[i] = "{"
       THEN IF i + 1 <= Len(s) /\ s[i + 1] = "}"
            THEN [ok |-> TRUE, val |-> ObjV(<<>>), i |-> i + 2]
            ELSE ParseMembers(s, i + 1, <<>>)
  ELSE ParseFail

\* JSON.parse(text): the whole text must be one value
JSONParse(s) ==
  LET r == ParseValue(s, 1)
  IN IF r.ok /\ r.i = Len(s) + 1 THEN r ELSE ParseFail

----------------------------------------------------------------------------
(* parseInt(text, 10) and the casts Mongoose applies to filter values      *)

NaN == [nan |-> TRUE, n |-> 0]
Num(n) == [nan |-> FALSE, n |-> n]

RECURSIVE SkipSpaces(_, _)
SkipSpaces(s, i) ==
  IF i <= Len(s) /\ s[i] = " " THEN SkipSpaces(s, i + 1) ELSE i

\* value of the longest run of digits from position i on; -1 when there is none
RECURSIVE DigitRun(_, _, _)
DigitRun(s, i, acc) ==
  IF i <= Len(s) /\ IsDigit(s[i])
  THEN DigitRun(s, i + 1, (IF acc < 0 THEN 0 ELSE acc) * 10 + DigitVal(s[i]))
  ELSE acc

\* parseInt(s, 10): leading blanks, a sign, then the leading digits
ParseInt(s) ==
  LET i == SkipSpaces(s, 1)
      neg == i <= Len(s) /\ s[i] = "-"
      j == IF i <= Len(s) /\ s[i] \in {"-", "+"} THEN i + 1 ELSE i
      v == DigitRun(s, j, -1)
  IN IF v < 0 THEN NaN ELSE Num(IF neg THEN 0 - v ELSE v)

\* parseInt(req.query[key], 10) without the || dflt
ParseIntNoDefault(q, key, dflt) ==
  LET r == IF HasKey(q, key) /\ Get(q, key).t = "str"
           THEN ParseInt(Get(q, key).v) ELSE NaN
  IN IF r.nan THEN 0 ELSE r.n

\* parseInt(req.query[key], 10) || dflt: an absent key or a nested object
\* gives NaN, and NaN and 0 are falsy
ParseIntOr(q, key, dflt) ==
  LET r == IF HasKey(q, key) /\ Get(q, key).t = "str"
           THEN ParseInt(Get(q, key).v) ELSE NaN
  IN IF r.nan \/ r.n = 0 THEN dflt ELSE r.n

RECURSIVE TrimRight(_)
TrimRight(s) ==
  IF s # <<>> /\ s[Len(s)] = " " THEN TrimRight(SubSeq(s, 1, Len(s) - 1)) ELSE s

\* Mongoose's cast of a filter value on a Number path: [err, null, n].
\* '' casts to null; otherwise Number(text) must not be NaN (decimal
\* integers are modelled, blanks around them are trimmed, blank text is 0).
CastNumber(s) ==
  LET t == TrimRight(SubSeq(s, SkipSpaces(s, 1), Len(s)))
      neg == t # <<>> /\ t[1] = "-"
      j == IF t # <<>> /\ t[1] \in {"-", "+"} THEN 2 ELSE 1
      allDigits == j <= Len(t) /\ \A k \in j..Len(t) : IsDigit(t[k])
      v == DigitRun(t, j, -1)
  IN IF s = <<>> THEN [err |-> FALSE, null |-> TRUE, n |-> 0]
     ELSE IF t = <<>> THEN [err |-> FALSE, null |-> FALSE, n |-> 0]
     ELSE IF allDigits
          THEN [err |-> FALSE, null |-> FALSE, n |-> IF neg THEN 0 - v ELSE v]
     ELSE [err |-> TRUE, null |-> FALSE, n |-> 0]

----------------------------------------------------------------------------
(* The collection.  A document is [name, cost]; its position in docs is    *)
(* its _id and its creation time.                                           *)

NAME == <<"n", "a", "m", "e">>
COST == <<"c", "o", "s", "t">>
CREATEDAT == <<"c", "r", "e", "a", "t", "e", "d", "A", "t">>

\* schema paths: the type a filter value is cast to
PathType(key) ==
  IF key = NAME THEN "String"
  ELSE IF key = COST THEN "Number"
  ELSE IF key = CREATEDAT THEN "Date"
  ELSE "none"

\* the stored documents as the store hands them out
Stored(ds) ==
  [i \in 1..Len(ds) |->
     [_id |-> i, name |-> ds[i].name, cost |-> ds[i].cost, createdAt |-> i]]

\* character codes, for the order of strings
Ascii == <<" ", "\"", "$", ",", "-", "/", "0", "1", "2", "3", "4", "5", "6",
           "7", "8", "9", ":", "A", "\\", "_", "a", "c", "d", "e", "g", "i",
           "l", "m", "n", "o", "p", "r", "s", "t", "u", "{", "}">>

Code(c) == CHOOSE k \in 1..Len(Ascii) : Ascii[k] = c

RECURSIVE StrLess(_, _)
StrLess(a, b) ==
  IF b = <<>> THEN FALSE
  ELSE IF a = <<>> THEN TRUE
  ELSE IF Head(a) = Head(b) THEN StrLess(Tail(a), Tail(b))
  ELSE Code(Head(a)) < Code(Head(b))

\* comparison of a document's field with a cast value under an operator
Compare(op, isStr, field, value) ==
  LET less == IF isStr THEN StrLess(field, value) ELSE field < value
      more == IF isStr THEN StrLess(value, field) ELSE value < field
  IN CASE op = <<"$", "g", "t">> -> more
       [] op = <<"$", "g", "t", "e">> -> ~less
       [] op = <<"$", "l", "t">> -> less
       [] op = <<"$", "l", "t", "e">> -> ~more
       [] op = <<"$", "i", "n">> -> field = value
       [] OTHER -> FALSE

QueryOps == {<<"$", "g", "t">>, <<"$", "g", "t", "e">>, <<"$", "l", "t">>,
             <<"$", "l", "t", "e">>, <<"$", "i", "n">>}

\* one condition of the filter on one document: "err" (the store rejects
\* the query), "skip" (the key is not a schema path and is stripped),
\* "yes" or "no"
CondOn(d, key, val) ==
  LET ty == PathType(key)
      field == IF ty = "String" THEN d.name
               ELSE IF ty = "Number" THEN d.cost ELSE d.createdAt
      cast(s) == IF ty = "String"
                 THEN [err |-> FALSE, null |-> FALSE, n |-> s]
                 ELSE CastNumber(s)
      one(op, s) == LET c == cast(s)
                    IN IF c.err THEN "err"
                       ELSE IF c.null THEN "no"
                       ELSE IF Compare(op, ty = "String", field, c.n)
                            THEN "yes" ELSE "no"
      eq(s) == LET c == cast(s)
               IN IF c.err THEN "err"
                  ELSE IF c.null THEN "no"
                  ELSE IF field = c.n THEN "yes" ELSE "no"
      ops == {one(val.m[k].key, val.m[k].val.v) : k \in 1..Len(val.m)}
  IN IF key # <<>> /\ key[1] = "$" THEN "err"
     ELSE IF ty = "none" THEN "skip"
     ELSE IF val.t = "str" THEN eq(val.v)
     ELSE IF \E k \in 1..Len(val.m) :
               val.m[k].key \notin QueryOps \/ val.m[k].val.t # "str"
          THEN "err"
     ELSE IF "err" \in ops THEN "err"
     ELSE IF "no" \in ops THEN "no" ELSE "yes"

FilterRejected(filter) ==
  \E k \in 1..Len(filter) :
     \/ (filter[k].key # <<>> /\ filter[k].key[1] = "$")
     \/ CondOn([_id |-> 0, name |-> <<>>, cost |-> 0, createdAt |-> 0],
               filter[k].key, filter[k].val) = "err"

Matches(d, filter) ==
  \A k \in 1..Len(filter) : CondOn(d, filter[k].key, filter[k].val) # "no"

RECURSIVE MatchingDocs(_, _)
MatchingDocs(ds, filter) ==
  IF ds = <<>> THEN <<>>
  ELSE (IF Matches(Head(ds), filter) THEN <<Head(ds)>> ELSE <<>>)
       \o MatchingDocs(Tail(ds), filter)

\* model.find(filter): the matching documents in natural order
Find(ds, filter) == MatchingDocs(Stored(ds), filter)

----------------------------------------------------------------------------
(* query.select, query.sort, query.skip, query.limit and the execution of   *)
(* the data query                                                           *)

\* a sort that takes every path ascending, whatever its prefix
SortKeysAscending(sortBy) ==
  LET ws == SelectSeq(Split(sortBy, " "), LAMBDA w : w # <<>>)
  IN [k \in 1..Len(ws) |->
        [path |-> IF ws[k][1] = "-" THEN Tail(ws[k]) ELSE ws[k], desc |-> FALSE]]

\* the sort string as Mongoose reads it: blank-separated paths, a leading
\* "-" for descending
SortKeys(sortBy) ==
  LET ws == SelectSeq(Split(sortBy, " "), LAMBDA w : w # <<>>)
  IN [k \in 1..Len(ws) |->
        IF ws[k][1] = "-"
        THEN [path |-> Tail(ws[k]), desc |-> TRUE]
        ELSE [path |-> ws[k], desc |-> FALSE]]

\* -1, 0, 1: the order of two documents on one path
CmpOn(a, b, path) ==
  IF path = NAME
  THEN IF StrLess(a.name, b.name) THEN -1
       ELSE IF StrLess(b.name, a.name) THEN 1 ELSE 0
  ELSE IF path = COST
  THEN IF a.cost < b.cost THEN -1 ELSE IF b.cost < a.cost THEN 1 ELSE 0
  ELSE IF path = CREATEDAT
  THEN IF a.createdAt < b.createdAt THEN -1
       ELSE IF b.createdAt < a.createdAt THEN 1 ELSE 0
  ELSE 0

\* a sorts strictly before b
RECURSIVE Before(_, _, _)
Before(a, b, keys) ==
  IF keys = <<>> THEN FALSE
  ELSE LET c == CmpOn(a, b, Head(keys).path)
           o == IF Head(keys).desc THEN 0 - c ELSE c
       IN IF o = 0 THEN Before(a, b, Tail(keys)) ELSE o < 0

\* d put into the sorted sequence, after the documents it does not precede
RECURSIVE InsertSorted(_, _, _)
InsertSorted(d, sorted, keys) ==
  IF sorted = <<>> THEN <<d>>
  ELSE IF Before(d, Head(sorted), keys) THEN <<d>> \o sorted
  ELSE <<Head(sorted)>> \o InsertSorted(d, Tail(sorted), keys)

RECURSIVE SortDocs(_, _)
SortDocs(ds, keys) ==
  IF ds = <<>> THEN <<>>
  ELSE InsertSorted(ds[Len(ds)], SortDocs(SubSeq(ds, 1, Len(ds) - 1), keys),
                    keys)

\* the fields a projection keeps: the selected ones and _id
Project(d, fields) ==
  LET ws == SelectSeq(Split(fields, " "), LAMBDA w : w # <<>>)
      keep(path) == fields = <<>> \/ \E k \in 1..Len(ws) : ws[k] = path
  IN [_id |-> d._id,
      name |-> IF keep(NAME) THEN d.name ELSE <<"-">>,
      cost |-> IF keep(COST) THEN d.cost ELSE -1,
      createdAt |-> IF keep(CREATEDAT) THEN d.createdAt ELSE -1]

\* the filtered, sorted result sequence the window is cut from
Sorted(ds, filter, sortBy) == SortDocs(Find(ds, filter), SortKeys(sortBy))

\* cursor.skip(n).limit(m): a negative limit is a limit of -m in a single
\* batch
Window(seq, skip, limit) ==
  LET m == IF limit < 0 THEN 0 - limit ELSE limit
      last == IF skip + m > Len(seq) THEN Len(seq) ELSE skip + m
  IN SubSeq(seq, skip + 1, last)

\* the store rejects the data query: a filter value that cannot be cast,
\* an unknown operator, a negative skip
DataQueryRejected(filter, skip) == FilterRejected(filter) \/ skip < 0

\* const results = await query
ExecQuery(ds, filter, p) ==
  LET w == Window(Sorted(ds, filter, p.sortBy), p.startIndex, p.limit)
  IN [k \in 1..Len(w) |-> Project(w[k], p.fields)]

\* a count that is given the filter of the data query
CountFiltered(ds, filter) == Len(Find(ds, filter))

\* const total = await model.countDocuments(): no filter is passed
CountDocuments(ds, filter) == Len(Find(ds, <<>>))

----------------------------------------------------------------------------
(* advancedResults                                                          *)

SELECT == <<"s", "e", "l", "e", "c", "t">>
SORT == <<"s", "o", "r", "t">>
PAGE == <<"p", "a", "g", "e">>
LIMIT == <<"l", "i", "m", "i", "t">>

\* const reqQuery = { ...req.query }; removeFields.forEach(delete)
RemoveFields(q) == Delete(Delete(Delete(Delete(q, SELECT), SORT), PAGE), LIMIT)

\* let queryStr = JSON.stringify(reqQuery); queryStr = queryStr.replace(...)
QueryStr(q) == ReplaceOperators(JSONStringify(RemoveFields(q)))

\* if (req.query.key): present and not the empty string
Truthy(q, key) == HasKey(q, key) /\ (Get(q, key).t = "obj" \/ Get(q, key).v # <<>>)

\* req.query.key.split(",").join(" ")
SplitJoin(q, key) == Join(Split(Get(q, key).v, ","), " ")

DefaultSort == <<"-">> \o CREATEDAT

\* the locals the synchronous part of the middleware computes
Plan(q, populate) ==
  LET page == ParseIntOr(q, PAGE, 1)
      limit == ParseIntOr(q, LIMIT, 10)
  IN [fields |-> IF Truthy(q, SELECT) THEN SplitJoin(q, SELECT) ELSE <<>>,
      sortBy |-> IF Truthy(q, SORT) THEN SplitJoin(q, SORT) ELSE DefaultSort,
      page |-> page,
      limit |-> limit,
      startIndex |-> (page - 1) * limit,
      endIndex |-> page * limit,
      populate |-> populate]

NoPlan ==
  [fields |-> <<>>, sortBy |-> <<>>, page |-> 0, limit |-> 0, startIndex |-> 0,
   endIndex |-> 0, populate |-> ""]

\* the next link tested with <= instead of <
PaginationOffByOne(p, tot) ==
  LET links == (IF p.endIndex <= tot THEN {"next"} ELSE {})
               \cup (IF p.startIndex > 0 THEN {"prev"} ELSE {})
  IN [k \in links |->
        IF k = "next" THEN [page |-> p.page + 1, limit |-> p.limit]
        ELSE [page |-> p.page - 1, limit |-> p.limit]]

\* const pagination = {}; if (endIndex < total) ...; if (startIndex > 0) ...
Pagination(p, tot) ==
  LET links == (IF p.endIndex < tot THEN {"next"} ELSE {})
               \cup (IF p.startIndex > 0 THEN {"prev"} ELSE {})
  IN [k \in links |->
        IF k = "next" THEN [page |-> p.page + 1, limit |-> p.limit]
        ELSE [page |-> p.page - 1, limit |-> p.limit]]

\* an envelope that reports failure when nothing was found
EnvelopeFailsWhenEmpty(results, pagination) ==
  [success |-> results # <<>>, count |-> Len(results),
   pagination |-> pagination, data |-> results]

\* res.advancedResults = { success, count, pagination, data }
Envelope(results, pagination) ==
  [success |-> TRUE, count |-> Len(results), pagination |-> pagination,
   data |-> results]

NoBody == [success |-> FALSE, count |-> 0, pagination |-> <<>>, data |-> <<>>]
NoResp == [status |-> 0, body |-> NoBody]
NoReq == [query |-> <<>>, url |-> <<>>]

\* the deletes act on req.query itself: const reqQuery = req.query
ReqQueryAliased(q) == RemoveFields(q)

\* req.query after removeFields.forEach((param) => delete reqQuery[param]):
\* reqQuery is a copy, { ...req.query }, so req.query keeps every key
ReqQueryAfterDeletes(q) == q
NoPrev == [set |-> FALSE, page |-> 0, limit |-> 0, filter |-> <<>>,
           pagination |-> <<>>]

\* The synchronous part of the middleware, up to the first await: the
\* filter is translated and handed to model.find, select and sort are
\* applied, the window is computed and the count query is issued.  An
\* exception thrown here rejects the middleware's promise.  Requests share
\* no state, so a run follows one request at a time.
Receive(q) ==
  /\ process = "running"
  /\ pc = "idle"
  /\ resp = NoResp
  /\ req' = [query |-> ReqQueryAfterDeletes(q), url |-> q]
  /\ LET parsed == JSONParse(QueryStr(q))
         badSplit == \E k \in {SELECT, SORT} : HasKey(q, k) /\ Get(q, k).t = "obj"
     IN IF ~parsed.ok
        THEN /\ failure' = "SyntaxError"
             /\ pc' = "rejected"
             /\ UNCHANGED <<findArg, plan, queries>>
        ELSE IF badSplit
        THEN /\ failure' = "TypeError"
             /\ pc' = "rejected"
             /\ findArg' = parsed.val.m
             /\ UNCHANGED <<plan, queries>>
        ELSE /\ findArg' = parsed.val.m
             /\ plan' = Plan(ReqQueryAfterDeletes(q), "courses")
             /\ queries' = Append(queries, "countDocuments")
             /\ pc' = "count"
             /\ UNCHANGED failure
  /\ UNCHANGED <<docs, process, total, resp, prev>>
  /\ UNCHANGED apiVars
  /\ UNCHANGED sideVars

\* The count query resolves; skip, limit and populate are applied and the
\* data query is issued.
CountResolves ==
  /\ pc = "count"
  /\ total' = CountDocuments(docs, findArg)
  /\ queries' = Append(queries, "find")
  /\ pc' = "data"
  /\ UNCHANGED <<docs, process, req, findArg, plan, resp, failure, prev>>
  /\ UNCHANGED apiVars
  /\ UNCHANGED sideVars

\* The data query resolves: pagination and envelope are built, next() runs
\* the route handler, which sends res.advancedResults with status 200.
\* Or the store rejects it, and the middleware's promise rejects.
DataResolves ==
  /\ pc = "data"
  /\ IF DataQueryRejected(findArg, plan.startIndex)
     THEN /\ failure' = "store"
          /\ pc' = "rejected"
          /\ UNCHANGED resp
     ELSE /\ resp' = [status |-> 200,
                      body |-> Envelope(ExecQuery(docs, findArg, plan),
                                        Pagination(plan, total))]
          /\ pc' = "done"
          /\ UNCHANGED failure
  /\ UNCHANGED <<docs, process, req, findArg, plan, total, queries, prev>>
  /\ UNCHANGED apiVars
  /\ UNCHANGED sideVars

\* The store fails while a query is outstanding (the connection is lost,
\* the server times out): the awaited promise rejects.
StoreFails ==
  /\ pc \in {"count", "data"}
  /\ failure' = "store"
  /\ pc' = "rejected"
  /\ UNCHANGED <<docs, process, req, findArg, plan, total, resp, queries, prev>>
  /\ UNCHANGED apiVars
  /\ UNCHANGED sideVars

\* A rejection of the middleware's promise: nothing catches it and nothing
\* calls next(err), so it is the process-level handler that runs:
\* server.close(() => process.exit(1)).
UnhandledRejection ==
  /\ pc = "rejected"
  /\ process = "running"
  /\ process' = "exited"
  /\ pc' = "exit"
  /\ UNCHANGED <<docs, req, findArg, plan, total, resp, failure, queries, prev>>
  /\ UNCHANGED apiVars
  /\ UNCHANGED sideVars

----------------------------------------------------------------------------
(* Writers: another request creates a document between the count query     *)
(* and the data query of this one.                                          *)

DocKinds == {[name |-> <<"a">>, cost |-> 1], [name |-> <<"i", "n">>, cost |-> 2]}

RECURSIVE SeqsUpTo(_, _)
SeqsUpTo(S, n) ==
  IF n = 0 THEN {<<>>}
  ELSE LET shorter == SeqsUpTo(S, n - 1)
       IN shorter \cup {Append(s, x) : s \in shorter, x \in S}

Collections == SeqsUpTo(DocKinds, MaxDocs)

\* Bootcamp.create(req.body) of a concurrent createBootcamp
InsertDoc(d) ==
  /\ pc = "data"
  /\ Len(docs) < MaxDocs
  /\ docs' = Append(docs, d)
  /\ UNCHANGED <<process, pc, req, findArg, plan, total, resp, failure, queries,
                 prev>>
  /\ UNCHANGED apiVars
  /\ UNCHANGED sideVars

----------------------------------------------------------------------------
(* Requests.  The sanitizing middlewares of server.js leave these          *)
(* queries as they are: no key starts with "$" or holds a ".", no value    *)
(* holds markup.                                                            *)

RECURSIVE Dec(_)
Dec(n) == IF n < 10 THEN <<Digits[n + 1]>> ELSE Dec(n \div 10) \o <<Digits[(n % 10) + 1]>>

\* the text of an integer, as a client writes it in the query string
NumText(n) == IF n < 0 THEN <<"-">> \o Dec(0 - n) ELSE Dec(n)

\* the integers, a text without digits, a text with digits in front
NumTexts == {NumText(n) : n \in (0 - 1)..MaxNum} \cup {<<"a">>, <<"2", "a">>}

\* a parameter that is absent or has one of the texts
Opt(key, texts) == {<<>>} \cup {<<Member(key, StrV(t))>> : t \in texts}

Ops == {Tokens[k] : k \in 1..Len(Tokens)}

\* field[op]=v
OpParam(field, op, v) == Member(field, ObjV(<<Member(op, StrV(v))>>))

\* filters of the paging runs: none, comparisons, equalities, a value that
\* is an operator word, a value that cannot be cast
Filters ==
  {<<>>,
   <<OpParam(COST, <<"l", "t", "e">>, <<"1">>)>>,
   <<Member(NAME, StrV(<<"a">>))>>,
   <<Member(NAME, StrV(<<"i", "n">>))>>,
   <<Member(COST, StrV(<<"a">>))>>}

SortSelects ==
  {<<>>,
   <<Member(SORT, StrV(COST))>>,
   <<Member(SORT, StrV(<<"-">> \o COST \o <<",">> \o NAME)),
     Member(SELECT, StrV(NAME \o <<",">> \o COST))>>}

Requests ==
  {f \o s \o pg \o lm : f \in Filters, s \in SortSelects,
                        pg \in Opt(PAGE, NumTexts), lm \in Opt(LIMIT, NumTexts)}

\* filter values of the translation runs: every text over these characters
Alphabet == {"i", "n", "a", " ", Q, "1"}

Texts == SeqsUpTo(Alphabet, MaxLen)

TextRequests ==
  {<<Member(f, StrV(v))>> : f \in {NAME, COST}, v \in Texts}
  \cup {<<OpParam(COST, op, v)>> : op \in Ops, v \in Texts}
  \cup {<<OpParam(NAME, <<"i", "n">>, v)>> : v \in Texts}
  \cup {<<Member(COST, ObjV(<<Member(<<"g", "t">>, StrV(<<"0">>)),
                              Member(<<"l", "t", "e">>, StrV(<<"1">>))>>)),
          Member(NAME, StrV(v)), Member(PAGE, StrV(<<"1">>)),
          Member(SELECT, StrV(NAME))>> : v \in {<<"a">>, <<"i", "n">>}}
  \cup {<<Member(NAME, StrV(v)), Member(SORT, StrV(<<"i", "n">>)),
          Member(COST, StrV(<<"1">>)), Member(LIMIT, StrV(<<"2">>))>> :
            v \in {<<"a">>, <<"a", "i", "n">>}}
  \cup {<<Member(NAME, StrV(v))>> :
            v \in {<<BS, "i", "n">>, <<"i", BS, "n">>, <<BS, Q, "i">>}}

TextCollections == {<<[name |-> <<"a">>, cost |-> 1],
                      [name |-> <<"i", "n">>, cost |-> 2]>>}

----------------------------------------------------------------------------
(* The earlier getBootcamps, which builds the query itself.  It is wrapped *)
(* in asyncHandler: whatever it throws, and whatever rejection it awaits,  *)
(* goes to next(err) and the error handler answers.                        *)

\* the status errorHandler gives a rejection of the store: 404 for a
\* CastError, 500 for every other error
StoreErrorStatus(filter) ==
  IF \E k \in 1..Len(filter) :
        /\ ~(filter[k].key # <<>> /\ filter[k].key[1] = "$")
        /\ CondOn([_id |-> 0, name |-> <<>>, cost |-> 0, createdAt |-> 0],
                  filter[k].key, filter[k].val) = "err"
  THEN 404 ELSE 500

\* The response of the inline handler to the query q when the count query
\* answers tot and the data query runs on the documents ds.
InlineGetBootcamps(q, tot, ds) ==
  LET reqQuery == Delete(Delete(Delete(Delete(q, SELECT), SORT), PAGE), LIMIT)
      queryStr == ReplaceOperators(JSONStringify(reqQuery))
      parsed == JSONParse(queryStr)
      given(key) == HasKey(q, key) /\ (Get(q, key).t = "obj" \/ Get(q, key).v # <<>>)
      noSplit(key) == given(key) /\ Get(q, key).t = "obj"
      fields == IF given(SELECT) THEN Join(Split(Get(q, SELECT).v, ","), " ")
                ELSE <<>>
      sortBy == IF given(SORT) THEN Join(Split(Get(q, SORT).v, ","), " ")
                ELSE <<"-">> \o CREATEDAT
      int(key) == IF HasKey(q, key) /\ Get(q, key).t = "str"
                  THEN ParseInt(Get(q, key).v) ELSE NaN
      page == IF int(PAGE).nan \/ int(PAGE).n = 0 THEN 1 ELSE int(PAGE).n
      limit == IF int(LIMIT).nan \/ int(LIMIT).n = 0 THEN 10 ELSE int(LIMIT).n
      startIndex == (page - 1) * limit
      endIndex == page * limit
      found == SortDocs(Find(ds, parsed.val.m), SortKeys(sortBy))
      cut == Window(found, startIndex, limit)
      data == [k \in 1..Len(cut) |-> Project(cut[k], fields)]
      links == (IF endIndex < tot THEN {"next"} ELSE {})
               \cup (IF startIndex > 0 THEN {"prev"} ELSE {})
      pagination == [k \in links |->
                       IF k = "next" THEN [page |-> page + 1, limit |-> limit]
                       ELSE [page |-> page - 1, limit |-> limit]]
  IN IF ~parsed.ok \/ noSplit(SELECT) \/ noSplit(SORT)
     THEN [status |-> 500, body |-> NoBody]
     ELSE IF FilterRejected(parsed.val.m) \/ startIndex < 0
     THEN [status |-> StoreErrorStatus(parsed.val.m), body |-> NoBody]
     ELSE [status |-> 200,
           body |-> [success |-> TRUE, count |-> Len(data),
                     pagination |-> pagination, data |-> data]]

----------------------------------------------------------------------------
(* The private routes.  A request on a connection passes protect, then     *)
(* authorize(...roles) of its route, then the handler; every await of a    *)
(* handler is a point where the requests of other connections may run.     *)

Calls == {1, 2}

\* user ids are single characters, so that a token can carry one
\* bcrypt.hash(password, salt) of the pre("save") hook of the User model
Hash(password) == <<"bcrypt", password>>

\* crypto.createHash("sha256").update(token).digest("hex")
Sha256(token) == <<"sha256", token>>

\* the value of a path that is undefined
Undefined == <<>>

\* every user registered with the password "p"; no reset is pending
SeedUsers ==
  [id \in {"1", "2", "3", "4", "5"} |->
     [role |-> IF id \in {"1", "2"} THEN "publisher"
               ELSE IF id = "3" THEN "admin" ELSE "user",
      email |-> <<id, "@">>,
      password |-> Hash("p"),
      resetPasswordToken |-> Undefined,
      resetPasswordExpire |-> 0]]

JWT_SECRET == "k"

\* jwt.sign({ id }, secret, { expiresIn }): the id, the key it was signed
\* with, and whether it is still valid ("v") or has expired ("e")
JwtSign(id, secret, exp) == <<id, secret, exp>>

\* a decode that does not check the signature and the expiry
JwtDecode(token, secret) ==
  [ok |-> Len(token) = 3, id |-> IF token = <<>> THEN "" ELSE token[1]]

\* jwt.verify(token, secret): throws unless the token is well-formed, was
\* signed with secret and has not expired
JwtVerify(token, secret) ==
  [ok |-> Len(token) = 3 /\ token[2] = secret /\ token[3] = "v",
   id |-> IF token = <<>> THEN "" ELSE token[1]]

BEARER == <<"B", "e", "a", "r", "e", "r">>

\* the token of a request: authorization.split(" ")[1] when the header
\* starts with Bearer, else the token cookie; <<>> when there is none
TokenOf(call) ==
  LET ws == Split(call.authorization, " ")
  IN IF call.authorization # <<>> /\ StartsAt(call.authorization, 1, BEARER)
     THEN IF Len(ws) >= 2 THEN ws[2] ELSE <<>>
     ELSE call.cookie

\* User.findById(id): the user, or null
FindUser(id) ==
  IF id \in DOMAIN users
  THEN [set |-> TRUE, null |-> FALSE, id |-> id, role |-> users[id].role]
  ELSE [set |-> TRUE, null |-> TRUE, id |-> "", role |-> ""]

NoBodyFields == [name |-> "", user |-> "", rating |-> 0]

\* req.files of a request without a file
NoFile == [present |-> FALSE, mimetype |-> "", size |-> 0, ext |-> ""]

Free ==
  [pc |-> "free", op |-> "", roles |-> {}, authorization |-> <<>>,
   cookie |-> <<>>, id |-> 0, body |-> NoBodyFields,
   file |-> NoFile,
   user |-> [set |-> FALSE, null |-> FALSE, id |-> "", role |-> ""],
   ran |-> FALSE, status |-> 0]

\* res.status(status).json(...): by the handler, or by the errorHandler for
\* next(new ErrorResponse(message, status)) and for a rejection it maps
Respond(call, status) == [call EXCEPT !.pc = "sent", !.status = status]

\* a connection without a request to the auth controller: the body and
\* the :resettoken of the request, the document the handler holds (its id
\* and the reset token it generated), the responses written to res, the
\* errors passed to next(), and what the client received
NoAuth ==
  [pc |-> "free", op |-> "", email |-> <<>>, password |-> "", resettoken |-> 0,
   user |-> "", token |-> 0, expire |-> 0, late |-> FALSE, writes |-> 0,
   nexts |-> 0, status |-> 0, jwt |-> <<>>, cookie |-> <<>>]

\* the collections and connections before any request
InitStore(bs, rs) ==
  /\ users = SeedUsers
  /\ bootcamps = bs
  /\ reviews = rs
  /\ calls = [c \in Calls |-> Free]
  /\ tasks = EmptyBag
  /\ auth = [c \in Calls |-> NoAuth]
  /\ now = 0
  /\ mails = <<>>
  /\ uploads = {}

\* a request arrives on a connection that has none in flight
Arrive(c, r) ==
  /\ calls[c].pc \in {"free", "sent"}
  /\ calls' = [calls EXCEPT ![c] = [Free EXCEPT !.pc = "protect", !.op = r.op,
                 !.roles = r.roles, !.authorization = r.authorization,
                 !.cookie = r.cookie, !.id = r.id, !.body = r.body,
                 !.file = IF "file" \in DOMAIN r THEN r.file ELSE NoFile]]
  /\ UNCHANGED <<users, bootcamps, reviews, tasks>>
  /\ UNCHANGED listVars
  /\ UNCHANGED sideVars

\* protect: no token, or a token that does not verify, is a 401; else
\* req.user = await User.findById(decoded.id); next()
Protect(c) ==
  /\ calls[c].pc = "protect"
  /\ LET token == TokenOf(calls[c])
         decoded == JwtVerify(token, JWT_SECRET)
     IN calls' = [calls EXCEPT ![c] =
                    IF token = <<>> \/ ~decoded.ok THEN Respond(@, 401)
                    ELSE [@ EXCEPT !.user = FindUser(decoded.id),
                                   !.pc = "authorize"]]
  /\ UNCHANGED <<users, bootcamps, reviews, tasks>>
  /\ UNCHANGED listVars
  /\ UNCHANGED sideVars

\* an authorize that lets every role pass
AuthorizeAnyRole(c) ==
  /\ calls[c].pc = "authorize"
  /\ calls' = [calls EXCEPT ![c] =
                 IF @.user.null THEN Respond(@, 500) ELSE [@ EXCEPT !.pc = "handler"]]
  /\ UNCHANGED <<users, bootcamps, reviews, tasks>>
  /\ UNCHANGED listVars
  /\ UNCHANGED sideVars

\* authorize(...roles): a role that is not among roles is a 403; reading
\* the role of a null req.user throws, which Express hands to the
\* errorHandler (500); else next() enters the route handler
Authorize(c) ==
  /\ calls[c].pc = "authorize"
  /\ calls' = [calls EXCEPT ![c] =
                 IF @.user.null THEN Respond(@, 500)
                 ELSE IF @.user.role \notin @.roles THEN Respond(@, 403)
                 ELSE [@ EXCEPT !.pc = "handler"]]
  /\ UNCHANGED <<users, bootcamps, reviews, tasks>>
  /\ UNCHANGED listVars
  /\ UNCHANGED sideVars

----------------------------------------------------------------------------
(* controllers/bootcamps.js                                                 *)

\* averageRating of a bootcamp no recomputation has written yet
Unset == [sum |-> 0, n |-> 0]

\* the photo of a bootcamp that has none
NO_PHOTO == <<>>

\* process.env.MAX_FILE_UPLOAD, in megabytes
MAX_FILE_UPLOAD == 1

\* `photo_${bootcamp._id}${path.parse(file.name).ext}`
PhotoName(id, ext) == <<"photo_", id, ext>>

\* Bootcamp.findById(id): the position of the stored document, 0 for null
LiveBootcamp(id) == id \in 1..Len(bootcamps) /\ bootcamps[id].live

\* a live bootcamp other than `except` has the name (the unique index)
NameTaken(name, except) ==
  \E i \in 1..Len(bootcamps) :
    i # except /\ bootcamps[i].live /\ bootcamps[i].name = name

\* bootcamp.user.toString() !== req.user.id && req.user.role !== "admin"
NotOwnerNorAdmin(owner, user) == owner # user.id /\ user.role # "admin"

\* createBootcamp up to the answer of Bootcamp.findOne({ user }): a
\* publisher who has a bootcamp gets a 400, else Bootcamp.create is issued
CreateBootcampFindOne(c) ==
  /\ calls[c].pc = "handler"
  /\ calls[c].op = "createBootcamp"
  /\ LET published == \E i \in 1..Len(bootcamps) :
                        bootcamps[i].live /\ bootcamps[i].user = calls[c].user.id
     IN calls' = [calls EXCEPT ![c] =
                    IF published /\ @.user.role # "admin"
                    THEN [Respond(@, 400) EXCEPT !.ran = TRUE]
                    ELSE [@ EXCEPT !.pc = "create", !.ran = TRUE]]
  /\ UNCHANGED <<users, bootcamps, reviews, tasks>>
  /\ UNCHANGED listVars
  /\ UNCHANGED sideVars

\* Bootcamp.create(req.body) answers: a duplicate name is a 400, else the
\* bootcamp is stored with req.body.user = req.user.id and 201 is sent
CreateBootcampCreate(c) ==
  /\ calls[c].pc = "create"
  /\ IF NameTaken(calls[c].body.name, 0)
     THEN /\ calls' = [calls EXCEPT ![c] = Respond(@, 400)]
          /\ UNCHANGED bootcamps
     ELSE /\ bootcamps' = Append(bootcamps,
               [user |-> calls[c].user.id, name |-> calls[c].body.name,
                photo |-> NO_PHOTO, averageRating |-> Unset, live |-> TRUE])
          /\ calls' = [calls EXCEPT ![c] = Respond(@, 201)]
  /\ UNCHANGED <<users, reviews, tasks>>
  /\ UNCHANGED listVars
  /\ UNCHANGED sideVars

\* updateBootcamp, deleteBootcamp and bootcampPhotoUpload up to the answer
\* of Bootcamp.findById: 404 when there is none, 401 when the requester is
\* neither the owner nor an admin, else the write is issued
BootcampFindById(c) ==
  /\ calls[c].pc = "handler"
  /\ calls[c].op \in {"updateBootcamp", "deleteBootcamp", "bootcampPhotoUpload"}
  /\ calls' = [calls EXCEPT ![c] =
       IF ~LiveBootcamp(@.id) THEN [Respond(@, 404) EXCEPT !.ran = TRUE]
       ELSE IF NotOwnerNorAdmin(bootcamps[@.id].user, @.user)
       THEN [Respond(@, 401) EXCEPT !.ran = TRUE]
       ELSE [@ EXCEPT !.ran = TRUE,
                      !.pc = IF calls[c].op = "updateBootcamp" THEN "update"
                             ELSE IF calls[c].op = "deleteBootcamp"
                             THEN "remove" ELSE "photo"]]
  /\ UNCHANGED <<users, bootcamps, reviews, tasks>>
  /\ UNCHANGED listVars
  /\ UNCHANGED sideVars

\* Bootcamp.findByIdAndUpdate(id, req.body, { new, runValidators })
\* answers: every field of the body is written; a duplicate name is a
\* 400; a bootcamp that is gone gives data: null with status 200
UpdateBootcampUpdate(c) ==
  /\ calls[c].pc = "update"
  /\ LET id == calls[c].id
         body == calls[c].body
     IN IF ~LiveBootcamp(id)
        THEN /\ calls' = [calls EXCEPT ![c] = Respond(@, 200)]
             /\ UNCHANGED bootcamps
        ELSE IF body.name # "" /\ NameTaken(body.name, id)
        THEN /\ calls' = [calls EXCEPT ![c] = Respond(@, 400)]
             /\ UNCHANGED bootcamps
        ELSE /\ bootcamps' = [bootcamps EXCEPT
                  ![id].name = IF body.name # "" THEN body.name ELSE @,
                  ![id].user = IF body.user # "" THEN body.user ELSE @]
             /\ calls' = [calls EXCEPT ![c] = Respond(@, 200)]
  /\ UNCHANGED <<users, reviews, tasks>>
  /\ UNCHANGED listVars
  /\ UNCHANGED sideVars

\* bootcamp.remove() answers: the document is deleted, 200 is sent
DeleteBootcampRemove(c) ==
  /\ calls[c].pc = "remove"
  /\ bootcamps' = [bootcamps EXCEPT ![calls[c].id].live = FALSE]
  /\ calls' = [calls EXCEPT ![c] = Respond(@, 200)]
  /\ UNCHANGED <<users, reviews, tasks>>
  /\ UNCHANGED listVars
  /\ UNCHANGED sideVars

\* bootcampPhotoUpload after the ownership check:
\* bootcamp = await Bootcamp.findByIdAndUpdate(id, req.body, ...) writes
\* every field of the body (a duplicate name is a 400), and the assignment
\* of the answer to the constant `bootcamp` throws a TypeError, which
\* asyncHandler passes to next(): 500.  The checks of req.files, file.mv
\* and the write of the photo field (lines 162-195) are never reached, so
\* nothing is put into the upload directory.
PhotoUploadUpdate(c) ==
  /\ calls[c].pc = "photo"
  /\ LET id == calls[c].id
         body == calls[c].body
     IN IF LiveBootcamp(id) /\ body.name # "" /\ NameTaken(body.name, id)
        THEN /\ calls' = [calls EXCEPT ![c] = Respond(@, 400)]
             /\ UNCHANGED bootcamps
        ELSE /\ bootcamps' =
                  IF ~LiveBootcamp(id) THEN bootcamps
                  ELSE [bootcamps EXCEPT
                          ![id].name = IF body.name # "" THEN body.name ELSE @,
                          ![id].user = IF body.user # "" THEN body.user ELSE @]
             /\ calls' = [calls EXCEPT ![c] = Respond(@, 500)]
  /\ UNCHANGED <<users, reviews, tasks>>
  /\ UNCHANGED listVars
  /\ UNCHANGED sideVars

----------------------------------------------------------------------------
(* models/Review.js and the reviews controller                              *)

MaxReviews == 2   \* reviews ever created
MaxTasks == 2     \* getAverageRating calls running at one time

\* rating: { type: Number, min: 1, max: 10 }
ValidRating(r) == r >= 1 /\ r <= 10

\* an index that is not unique
PairNeverTaken(bootcamp, user, except) == FALSE

\* ReviewSchema.index({ bootcamp: 1, user: 1 }, { unique: true }): a stored
\* review other than `except` has the pair
PairTaken(bootcamp, user, except) ==
  \E i \in 1..Len(reviews) :
    /\ i # except
    /\ reviews[i].live
    /\ reviews[i].bootcamp = bootcamp
    /\ reviews[i].user = user

LiveReview(id) == id \in 1..Len(reviews) /\ reviews[id].live

RECURSIVE SumRatings(_, _)
SumRatings(bootcamp, i) ==
  IF i = 0 THEN 0
  ELSE SumRatings(bootcamp, i - 1)
       + (IF reviews[i].live /\ reviews[i].bootcamp = bootcamp
          THEN reviews[i].rating ELSE 0)

\* $match { bootcamp }, $group { averageRating: { $avg: "$rating" } }, then
\* obj.length > 0 ? obj[0].averageRating : 0, as the fraction sum / n
AverageRating(bootcamp) ==
  LET n == Cardinality({i \in 1..Len(reviews) :
                          reviews[i].live /\ reviews[i].bootcamp = bootcamp})
      s == SumRatings(bootcamp, Len(reviews))
  IN IF n = 0 THEN [sum |-> 0, n |-> 1]
     ELSE [sum |-> s, n |-> n]

\* this.constructor.getAverageRating(this.bootcamp) in a hook: the call is
\* not awaited, it runs beside the request that caused it
Recompute(bootcamp) ==
  SetToBag({[bootcamp |-> bootcamp, pc |-> "aggregate", avg |-> Unset]})

\* the aggregation of getAverageRating answers
GetAverageRatingAggregate(t) ==
  /\ BagIn(t, tasks)
  /\ t.pc = "aggregate"
  /\ tasks' = (tasks (-) SetToBag({t}))
              (+) SetToBag({[t EXCEPT !.pc = "update",
                                      !.avg = AverageRating(t.bootcamp)]})
  /\ UNCHANGED <<users, bootcamps, reviews, calls>>
  /\ UNCHANGED listVars
  /\ UNCHANGED sideVars

\* Bootcamp.findByIdAndUpdate(bootcampId, { averageRating }) answers
GetAverageRatingUpdate(t) ==
  /\ BagIn(t, tasks)
  /\ t.pc = "update"
  /\ tasks' = tasks (-) SetToBag({t})
  /\ bootcamps' = IF LiveBootcamp(t.bootcamp)
                  THEN [bootcamps EXCEPT ![t.bootcamp].averageRating = t.avg]
                  ELSE bootcamps
  /\ UNCHANGED <<users, reviews, calls>>
  /\ UNCHANGED listVars
  /\ UNCHANGED sideVars

\* addReview up to the answer of Bootcamp.findById(req.params.bootcampId)
AddReviewFindById(c) ==
  /\ calls[c].pc = "handler"
  /\ calls[c].op = "addReview"
  /\ calls' = [calls EXCEPT ![c] =
       IF ~LiveBootcamp(@.id) THEN [Respond(@, 404) EXCEPT !.ran = TRUE]
       ELSE [@ EXCEPT !.pc = "createReview", !.ran = TRUE]]
  /\ UNCHANGED <<users, bootcamps, reviews, tasks>>
  /\ UNCHANGED listVars
  /\ UNCHANGED sideVars

\* Review.create(req.body) answers, with req.body.bootcamp and
\* req.body.user set by the handler: a ValidationError or a duplicate key
\* is a 400; else the review is stored, the save hook starts the
\* recomputation, and 201 is sent
AddReviewCreate(c) ==
  /\ calls[c].pc = "createReview"
  /\ IF \/ ~ValidRating(calls[c].body.rating)
        \/ PairTaken(calls[c].id, calls[c].user.id, 0)
     THEN /\ calls' = [calls EXCEPT ![c] = Respond(@, 400)]
          /\ UNCHANGED <<reviews, tasks>>
     ELSE /\ Len(reviews) < MaxReviews
          /\ BagCardinality(tasks) < MaxTasks
          /\ reviews' = Append(reviews,
               [bootcamp |-> calls[c].id, user |-> calls[c].user.id,
                rating |-> calls[c].body.rating, live |-> TRUE])
          /\ tasks' = tasks (+) Recompute(calls[c].id)
          /\ calls' = [calls EXCEPT ![c] = Respond(@, 201)]
  /\ UNCHANGED <<users, bootcamps>>
  /\ UNCHANGED listVars
  /\ UNCHANGED sideVars

\* updateReview and deleteReview up to the answer of Review.findById: 404
\* when there is none, 401 when the requester is neither the author nor an
\* admin; else updateReview issues findByIdAndUpdate, and deleteReview
\* calls review.remove(), whose pre hook starts the recomputation before
\* the delete is issued
ReviewFindById(c) ==
  /\ calls[c].pc = "handler"
  /\ calls[c].op \in {"updateReview", "deleteReview"}
  /\ LET call == calls[c]
         refused == ~LiveReview(call.id)
                    \/ NotOwnerNorAdmin(reviews[call.id].user, call.user)
     IN IF refused
        THEN /\ calls' = [calls EXCEPT ![c] =
                  [Respond(@, IF LiveReview(call.id) THEN 401 ELSE 404)
                     EXCEPT !.ran = TRUE]]
             /\ UNCHANGED tasks
        ELSE IF call.op = "updateReview"
        THEN /\ calls' = [calls EXCEPT ![c].pc = "updateReview", ![c].ran = TRUE]
             /\ UNCHANGED tasks
        ELSE /\ BagCardinality(tasks) < MaxTasks
             /\ tasks' = tasks (+) Recompute(reviews[call.id].bootcamp)
             /\ calls' = [calls EXCEPT ![c].pc = "removeReview", ![c].ran = TRUE]
  /\ UNCHANGED <<users, bootcamps, reviews>>
  /\ UNCHANGED listVars
  /\ UNCHANGED sideVars

\* Review.findByIdAndUpdate(id, req.body, { new, runValidators }) answers:
\* every field of the body is written; a ValidationError or a duplicate
\* key is a 400; for a review that is gone the answer is null, and
\* review.save() throws (500)
UpdateReviewUpdate(c) ==
  /\ calls[c].pc = "updateReview"
  /\ LET id == calls[c].id
         body == calls[c].body
     IN IF ~LiveReview(id)
        THEN /\ calls' = [calls EXCEPT ![c] = Respond(@, 500)]
             /\ UNCHANGED reviews
        ELSE IF \/ (body.rating # 0 /\ ~ValidRating(body.rating))
                \/ (body.user # "" /\ PairTaken(reviews[id].bootcamp, body.user, id))
        THEN /\ calls' = [calls EXCEPT ![c] = Respond(@, 400)]
             /\ UNCHANGED reviews
        ELSE /\ reviews' = [reviews EXCEPT
                  ![id].rating = IF body.rating # 0 THEN body.rating ELSE @,
                  ![id].user = IF body.user # "" THEN body.user ELSE @]
             /\ calls' = [calls EXCEPT ![c].pc = "saveReview"]
  /\ UNCHANGED <<users, bootcamps, tasks>>
  /\ UNCHANGED listVars
  /\ UNCHANGED sideVars

\* review.save() answers: nothing is modified, so nothing is written; the
\* save hook starts the recomputation and 200 is sent.  For a review that
\* was removed meanwhile save rejects (DocumentNotFoundError, 500).
UpdateReviewSave(c) ==
  /\ calls[c].pc = "saveReview"
  /\ IF ~LiveReview(calls[c].id)
     THEN /\ calls' = [calls EXCEPT ![c] = Respond(@, 500)]
          /\ UNCHANGED tasks
     ELSE /\ BagCardinality(tasks) < MaxTasks
          /\ tasks' = tasks (+) Recompute(reviews[calls[c].id].bootcamp)
          /\ calls' = [calls EXCEPT ![c] = Respond(@, 200)]
  /\ UNCHANGED <<users, bootcamps, reviews>>
  /\ UNCHANGED listVars
  /\ UNCHANGED sideVars

\* the delete of review.remove() answers: 200 is sent
DeleteReviewRemove(c) ==
  /\ calls[c].pc = "removeReview"
  /\ reviews' = [reviews EXCEPT ![calls[c].id].live = FALSE]
  /\ calls' = [calls EXCEPT ![c] = Respond(@, 200)]
  /\ UNCHANGED <<users, bootcamps, tasks>>
  /\ UNCHANGED listVars
  /\ UNCHANGED sideVars

----------------------------------------------------------------------------
(* controllers/auth.js: login, forgotPassword, resetPassword.  The User    *)
(* model is used through its methods as the readme gives them; its hook    *)
(* hashes a password that a handler has assigned.                          *)

MaxTime == 3     \* the clock stops here
MaxMails == 1    \* reset tokens ever generated

\* 10 * 60 * 1000 ms, in units of five minutes
TenMinutes == 2

\* a matchPassword that accepts every password
MatchAnyPassword(entered, stored) == TRUE

\* UserSchema.methods.matchPassword: bcrypt.compare(entered, this.password)
MatchPassword(entered, stored) == stored = Hash(entered)

\* User.findOne({ email }): the ids of the users with the email
FindByEmail(email) == {id \in DOMAIN users : users[id].email = email}

\* res.status(status).json(...): the first write is the response; a later
\* one finds the headers sent and throws
ResJson(a, status) ==
  IF a.writes = 0 THEN [a EXCEPT !.writes = 1, !.status = status]
  ELSE [a EXCEPT !.writes = @ + 1]

\* sendTokenResponse(user, statusCode, res): the signed token goes into
\* the cookie and the body
SendTokenResponse(a, id, status) ==
  IF a.writes = 0
  THEN [a EXCEPT !.writes = 1, !.status = status,
                 !.jwt = JwtSign(id, JWT_SECRET, "v"),
                 !.cookie = JwtSign(id, JWT_SECRET, "v")]
  ELSE [a EXCEPT !.writes = @ + 1]

\* next(err): the errorHandler writes res.status(statusCode).json(...), and
\* the handler is over
NextError(a, status) ==
  [ResJson(a, status) EXCEPT !.nexts = @ + 1, !.pc = "sent"]

\* the handler returns after it has written its response
Return(a) == [a EXCEPT !.pc = "sent"]

\* a client that resets a password has the token from a mail that was
\* delivered, or from one of a request that has failed, or makes one up
\* (0, which no mail carries)
KnowsToken(r) ==
  r.op = "resetPassword" =>
    \/ r.resettoken = 0
    \/ /\ r.resettoken \in 1..Len(mails)
       /\ mails[r.resettoken].fate \in {"delivered", "failed"}

\* a request to the auth controller arrives on a connection that has none
\* in flight; `late` records that its token had been used by then
AuthArrive(c, r) ==
  /\ auth[c].pc \in {"free", "sent"}
  /\ KnowsToken(r)
  /\ auth' = [auth EXCEPT ![c] =
       [NoAuth EXCEPT !.pc = "handler", !.op = r.op, !.email = r.email,
          !.password = r.password, !.resettoken = r.resettoken,
          !.late = /\ r.op = "resetPassword"
                   /\ r.resettoken # 0
                   /\ mails[r.resettoken].used]]
  /\ UNCHANGED <<now, mails, uploads>>
  /\ UNCHANGED apiVars
  /\ UNCHANGED listVars

\* login up to User.findOne: a body without email or password is a 400
Login(c) ==
  /\ auth[c].pc = "handler"
  /\ auth[c].op = "login"
  /\ auth' = [auth EXCEPT ![c] =
       IF @.email = <<>> \/ @.password = "" THEN NextError(@, 400)
       ELSE [@ EXCEPT !.pc = "findOne"]]
  /\ UNCHANGED <<now, mails, uploads>>
  /\ UNCHANGED apiVars
  /\ UNCHANGED listVars

\* User.findOne({ email }).select("+password") answers: no user is a 401,
\* a password that does not match the stored hash is a 401, else
\* sendTokenResponse(user, 200, res)
LoginFindOne(c) ==
  /\ auth[c].pc = "findOne"
  /\ auth' = [auth EXCEPT ![c] =
       LET found == FindByEmail(@.email)
       IN IF found = {} THEN NextError(@, 401)
          ELSE LET id == CHOOSE u \in found : TRUE
               IN IF ~MatchPassword(@.password, users[id].password)
                  THEN NextError(@, 401)
                  ELSE Return(SendTokenResponse([@ EXCEPT !.user = id], id, 200))]
  /\ UNCHANGED <<now, mails, uploads>>
  /\ UNCHANGED apiVars
  /\ UNCHANGED listVars

\* forgotPassword up to the first save: User.findOne({ email }) answers;
\* no user is a 404; else getResetPasswordToken() draws a fresh token, puts
\* its hash and Date.now() + 10 min on the document, and save is issued
ForgotPasswordFindOne(c) ==
  /\ auth[c].pc = "handler"
  /\ auth[c].op = "forgotPassword"
  /\ LET found == FindByEmail(auth[c].email)
     IN IF found = {}
        THEN /\ auth' = [auth EXCEPT ![c] = NextError(@, 404)]
             /\ UNCHANGED mails
        ELSE /\ Len(mails) < MaxMails
             /\ LET id == CHOOSE u \in found : TRUE
                IN /\ mails' = Append(mails, [user |-> id, at |-> now,
                                        fate |-> "pending", used |-> FALSE])
                   /\ auth' = [auth EXCEPT ![c] =
                        [@ EXCEPT !.pc = "saveToken", !.user = id,
                                  !.token = Len(mails) + 1,
                                  !.expire = now + TenMinutes]]
  /\ UNCHANGED <<now, uploads>>
  /\ UNCHANGED apiVars
  /\ UNCHANGED listVars

\* user.save({ validateBeforeSave: false }) answers: the hashed token and
\* the expiry are stored; sendEmail is called
ForgotPasswordSave(c) ==
  /\ auth[c].pc = "saveToken"
  /\ users' = [users EXCEPT
       ![auth[c].user].resetPasswordToken = Sha256(auth[c].token),
       ![auth[c].user].resetPasswordExpire = auth[c].expire]
  /\ auth' = [auth EXCEPT ![c].pc = "sendEmail"]
  /\ UNCHANGED <<bootcamps, reviews, calls, tasks>>
  /\ UNCHANGED <<now, mails, uploads>>
  /\ UNCHANGED listVars

\* sendEmail resolves: the mail is delivered, res.status(200).json(...) of
\* the try block is the response, and the res.status(200).json(...) after
\* the try block throws, which asyncHandler passes to next().  Or it
\* rejects: the catch block takes the token off the document and issues
\* the save
ForgotPasswordSendEmail(c, delivered) ==
  /\ auth[c].pc = "sendEmail"
  /\ mails' = [mails EXCEPT ![auth[c].token].fate =
                 IF delivered THEN "delivered" ELSE "rejected"]
  /\ auth' = [auth EXCEPT ![c] =
       IF delivered THEN NextError(ResJson(ResJson(@, 200), 200), 500)
       ELSE [@ EXCEPT !.pc = "clearToken"]]
  /\ UNCHANGED <<now, uploads>>
  /\ UNCHANGED apiVars
  /\ UNCHANGED listVars

\* a catch block that answers without the save
ForgotPasswordKeepsToken(c) ==
  /\ auth[c].pc = "clearToken"
  /\ auth' = [auth EXCEPT ![c] = NextError(@, 500)]
  /\ mails' = [mails EXCEPT ![auth[c].token].fate = "failed"]
  /\ UNCHANGED users
  /\ UNCHANGED <<bootcamps, reviews, calls, tasks>>
  /\ UNCHANGED <<now, uploads>>
  /\ UNCHANGED listVars

\* the save of the catch block answers: resetPasswordToken and
\* resetPasswordExpire are undefined in the store; next(500)
ForgotPasswordClear(c) ==
  /\ auth[c].pc = "clearToken"
  /\ users' = [users EXCEPT
       ![auth[c].user].resetPasswordToken = Undefined,
       ![auth[c].user].resetPasswordExpire = 0]
  /\ auth' = [auth EXCEPT ![c] = NextError(@, 500)]
  /\ mails' = [mails EXCEPT ![auth[c].token].fate = "failed"]
  /\ UNCHANGED <<bootcamps, reviews, calls, tasks>>
  /\ UNCHANGED <<now, uploads>>
  /\ UNCHANGED listVars

\* a query that does not look at the expiry
ResetTokenNeverExpires(user, token, time) ==
  user.resetPasswordToken = Sha256(token)

\* { resetPasswordToken, resetPasswordExpire: { $gt: Date.now() } }
ResetTokenValid(user, token, time) ==
  /\ user.resetPasswordToken = Sha256(token)
  /\ user.resetPasswordExpire > time

\* resetPassword up to the save: User.findOne answers; no user is a 400
\* "Invalid token"; else the password and the undefined token fields are
\* put on the document and save is issued
ResetPasswordFindOne(c) ==
  /\ auth[c].pc = "handler"
  /\ auth[c].op = "resetPassword"
  /\ auth' = [auth EXCEPT ![c] =
       LET found == {id \in DOMAIN users :
                       ResetTokenValid(users[id], @.resettoken, now)}
       IN IF found = {} THEN NextError(@, 400)
          ELSE [@ EXCEPT !.pc = "savePassword",
                         !.user = CHOOSE u \in found : TRUE]]
  /\ UNCHANGED <<now, mails, uploads>>
  /\ UNCHANGED apiVars
  /\ UNCHANGED listVars

\* a save that leaves the token fields in the store
ResetPasswordKeepsToken(c) ==
  /\ auth[c].pc = "savePassword"
  /\ IF auth[c].password = ""
     THEN /\ auth' = [auth EXCEPT ![c] = NextError(@, 400)]
          /\ UNCHANGED <<users, mails>>
     ELSE /\ users' = [users EXCEPT
               ![auth[c].user].password = Hash(auth[c].password)]
          /\ mails' = [mails EXCEPT ![auth[c].resettoken].used = TRUE]
          /\ auth' = [auth EXCEPT ![c] =
               NextError(ResJson(SendTokenResponse(@, @.user, 200), 200), 500)]
  /\ UNCHANGED <<bootcamps, reviews, calls, tasks>>
  /\ UNCHANGED <<now, uploads>>
  /\ UNCHANGED listVars

\* user.save() answers: a document without password fails validation
\* (400); else the hashed password is stored and the token fields are
\* removed; sendTokenResponse(user, 200, res) is the response, and the
\* res.status(200).json(...) after it throws, which asyncHandler passes to
\* next()
ResetPasswordSave(c) ==
  /\ auth[c].pc = "savePassword"
  /\ IF auth[c].password = ""
     THEN /\ auth' = [auth EXCEPT ![c] = NextError(@, 400)]
          /\ UNCHANGED <<users, mails>>
     ELSE /\ users' = [users EXCEPT
               ![auth[c].user].password = Hash(auth[c].password),
               ![auth[c].user].resetPasswordToken = Undefined,
               ![auth[c].user].resetPasswordExpire = 0]
          /\ mails' = [mails EXCEPT ![auth[c].resettoken].used = TRUE]
          /\ auth' = [auth EXCEPT ![c] =
               NextError(ResJson(SendTokenResponse(@, @.user, 200), 200), 500)]
  /\ UNCHANGED <<bootcamps, reviews, calls, tasks>>
  /\ UNCHANGED <<now, uploads>>
  /\ UNCHANGED listVars

\* time passes
Tick ==
  /\ now < MaxTime
  /\ now' = now + 1
  /\ UNCHANGED <<auth, mails, uploads>>
  /\ UNCHANGED apiVars
  /\ UNCHANGED listVars

----------------------------------------------------------------------------
(* Specifications *)

InitRequest ==
  /\ process = "running"
  /\ pc = "idle"
  /\ req = NoReq
  /\ findArg = <<>>
  /\ plan = NoPlan
  /\ total = 0
  /\ resp = NoResp
  /\ failure = "none"
  /\ queries = <<>>
  /\ prev = NoPrev

Init == docs \in Collections /\ InitRequest /\ InitStore(<<>>, <<>>)

\* paging runs: one request against any collection, with concurrent writers
Next ==
  \/ \E q \in Requests : Receive(q)
  \/ CountResolves
  \/ DataResolves
  \/ StoreFails
  \/ UnhandledRejection
  \/ \E d \in DocKinds : InsertDoc(d)

Spec == Init /\ [][Next]_vars

InitText == docs \in TextCollections /\ InitRequest /\ InitStore(<<>>, <<>>)

\* translation runs: one request whose filter value is any text
NextText ==
  \/ \E q \in TextRequests : Receive(q)
  \/ CountResolves
  \/ DataResolves
  \/ StoreFails
  \/ UnhandledRejection

SpecText == InitText /\ [][NextText]_vars

\* The response has been delivered; the next request of the same client
\* arrives.  The outcome of the first is kept for comparison.
NextRequest ==
  /\ pc = "done"
  /\ ~prev.set
  /\ prev' = [set |-> TRUE, page |-> plan.page, limit |-> plan.limit,
              filter |-> findArg, pagination |-> resp.body.pagination]
  /\ pc' = "idle"
  /\ req' = NoReq
  /\ findArg' = <<>>
  /\ plan' = NoPlan
  /\ total' = 0
  /\ resp' = NoResp
  /\ queries' = <<>>
  /\ UNCHANGED <<docs, process, failure>>
  /\ UNCHANGED apiVars
  /\ UNCHANGED sideVars

PairRequests ==
  {f \o pg \o lm :
     f \in {<<>>, <<Member(NAME, StrV(<<"a">>))>>,
            <<OpParam(COST, <<"g", "t">>, <<"1">>)>>},
     pg \in Opt(PAGE, {<<"2">>}),
     lm \in Opt(LIMIT, {<<"1">>, <<"2">>})}

\* two requests, one after the other, against one collection state
NextPair ==
  \/ \E q \in PairRequests : Receive(q)
  \/ CountResolves
  \/ DataResolves
  \/ StoreFails
  \/ UnhandledRejection
  \/ NextRequest

SpecPair == Init /\ [][NextPair]_vars

\* documents of the sorting runs: two of them tie on the name, two on
\* the cost
SortKinds == DocKinds \cup {[name |-> <<"a">>, cost |-> 2]}

SortCollections == SeqsUpTo(SortKinds, MaxDocs)

\* sort=, sort=cost, sort=-cost, sort=-cost,name, sort=name,-cost,
\* sort=-createdAt, sort=createdAt
SortTexts ==
  {<<>>, COST, <<"-">> \o COST, <<"-">> \o COST \o <<",">> \o NAME,
   NAME \o <<",", "-">> \o COST, <<"-">> \o CREATEDAT, CREATEDAT}

SortRequests ==
  {s \o pg \o lm : s \in Opt(SORT, SortTexts), pg \in Opt(PAGE, {<<"2">>}),
                    lm \in Opt(LIMIT, {<<"1">>, <<"2">>})}

InitSort == docs \in SortCollections /\ InitRequest /\ InitStore(<<>>, <<>>)

\* sorting runs: one request with any of the sort texts
NextSort ==
  \/ \E q \in SortRequests : Receive(q)
  \/ CountResolves
  \/ DataResolves
  \/ StoreFails
  \/ UnhandledRejection
  \/ \E d \in SortKinds : InsertDoc(d)

SpecSort == InitSort /\ [][NextSort]_vars

\* query keys of the key runs: schema paths, a key that is no path, keys
\* that are operator words, a key that holds one
IN_ == <<"i", "n">>
GT == <<"g", "t">>

KeyNames == {NAME, COST, <<"a">>, IN_, GT, <<"a", " ", "i", "n">>}

\* a reserved key as text, as an object (sort[a]=b), or absent
Reserved(key, texts) ==
  Opt(key, texts) \cup {<<Member(key, ObjV(<<Member(<<"a">>, StrV(<<"b">>))>>))>>}

KeyRequests ==
  {f \o g \o s \o sl \o pg :
     f \in {<<>>} \cup {<<Member(k, StrV(<<"1">>))>> : k \in KeyNames}
           \cup {<<OpParam(COST, SELECT, <<"1">>)>>,
                 <<OpParam(COST, GT, <<"1">>)>>},
     g \in Opt(LIMIT, {<<"1">>}),
     s \in Reserved(SORT, {COST}),
     sl \in Reserved(SELECT, {NAME}),
     pg \in Opt(PAGE, {<<"2">>})}

InitKeys == docs \in Collections /\ InitRequest /\ InitStore(<<>>, <<>>)

\* key runs: one request with any of the keys, with concurrent writers
NextKeys ==
  \/ \E q \in KeyRequests : Receive(q)
  \/ CountResolves
  \/ DataResolves
  \/ StoreFails
  \/ UnhandledRejection
  \/ \E d \in DocKinds : InsertDoc(d)

SpecKeys == InitKeys /\ [][NextKeys]_vars

----------------------------------------------------------------------------
(* Requests to the private routes and the runs they make                   *)

\* the Authorization header of a client that logged in as the user
SignedIn(id) == BEARER \o <<" ">> \o JwtSign(id, JWT_SECRET, "v")

\* authorize("publisher", "admin") and authorize("user", "admin")
PublisherRoute == {"publisher", "admin"}
ReviewerRoute == {"user", "admin"}

\* POST /api/v1/bootcamps by a publisher and by the admin
CreateRequests ==
  {[op |-> "createBootcamp", roles |-> PublisherRoute,
    authorization |-> SignedIn(u), cookie |-> <<>>, id |-> 0,
    body |-> [NoBodyFields EXCEPT !.name = n]] :
     u \in {"1", "3"}, n \in {"x", "y", "z"}}

\* runs of createBootcamp requests on two connections
NextCreate ==
  \E c \in Calls :
    \/ \E r \in CreateRequests : Arrive(c, r)
    \/ Protect(c)
    \/ Authorize(c)
    \/ CreateBootcampFindOne(c)
    \/ CreateBootcampCreate(c)

InitCreate == docs = <<>> /\ InitRequest /\ InitStore(<<>>, <<>>)

SpecCreate == InitCreate /\ [][NextCreate]_vars

\* a bootcamp of each publisher
SeedBootcamps ==
  <<[user |-> "1", name |-> "x", photo |-> NO_PHOTO, averageRating |-> Unset,
     live |-> TRUE],
    [user |-> "2", name |-> "y", photo |-> NO_PHOTO, averageRating |-> Unset,
     live |-> TRUE]>>

\* PUT and DELETE /api/v1/bootcamps/:id by the publishers and the admin;
\* a body renames the bootcamp or names another user as its owner
OwnerRequests ==
  {[op |-> o, roles |-> PublisherRoute, authorization |-> SignedIn(u),
    cookie |-> <<>>, id |-> i, body |-> b] :
     o \in {"updateBootcamp", "deleteBootcamp"}, u \in {"1", "2", "3"},
     i \in {1, 2},
     b \in {[NoBodyFields EXCEPT !.name = "z"], [NoBodyFields EXCEPT !.user = "2"]}}

\* runs of updateBootcamp and deleteBootcamp requests on two connections
NextOwner ==
  \E c \in Calls :
    \/ \E r \in OwnerRequests : Arrive(c, r)
    \/ Protect(c)
    \/ Authorize(c)
    \/ BootcampFindById(c)
    \/ UpdateBootcampUpdate(c)
    \/ DeleteBootcampRemove(c)

InitOwner == docs = <<>> /\ InitRequest /\ InitStore(SeedBootcamps, <<>>)

SpecOwner == InitOwner /\ [][NextOwner]_vars

\* POST /api/v1/bootcamps/1/reviews, PUT and DELETE /api/v1/reviews/:id by
\* two users, with ratings 1 and 3
RatingRequests ==
  {[op |-> "addReview", roles |-> ReviewerRoute, authorization |-> SignedIn(u),
    cookie |-> <<>>, id |-> 1, body |-> [NoBodyFields EXCEPT !.rating = r]] :
     u \in {"4", "5"}, r \in {1, 3}}
  \cup {[op |-> "updateReview", roles |-> ReviewerRoute,
         authorization |-> SignedIn(u), cookie |-> <<>>, id |-> i,
         body |-> [NoBodyFields EXCEPT !.rating = r]] :
          u \in {"4", "5"}, i \in 1..MaxReviews, r \in {1, 3}}
  \cup {[op |-> "deleteReview", roles |-> ReviewerRoute,
         authorization |-> SignedIn(u), cookie |-> <<>>, id |-> i,
         body |-> NoBodyFields] : u \in {"4", "5"}, i \in 1..MaxReviews}

\* runs of review requests, one at a time, beside the recomputations they
\* start
NextRating ==
  \/ \E r \in RatingRequests : Arrive(1, r)
  \/ Protect(1)
  \/ Authorize(1)
  \/ AddReviewFindById(1)
  \/ AddReviewCreate(1)
  \/ ReviewFindById(1)
  \/ UpdateReviewUpdate(1)
  \/ UpdateReviewSave(1)
  \/ DeleteReviewRemove(1)
  \/ \E t \in BagToSet(tasks) :
       GetAverageRatingAggregate(t) \/ GetAverageRatingUpdate(t)

InitRating == docs = <<>> /\ InitRequest /\ InitStore(SubSeq(SeedBootcamps, 1, 1), <<>>)

SpecRating == InitRating /\ [][NextRating]_vars

\* addReview requests of two users, and updateReview requests of one of
\* them whose body names the other as the author
UniqueRequests ==
  {[op |-> "addReview", roles |-> ReviewerRoute, authorization |-> SignedIn(u),
    cookie |-> <<>>, id |-> 1, body |-> [NoBodyFields EXCEPT !.rating = 1]] :
     u \in {"4", "5"}}
  \cup {[op |-> "updateReview", roles |-> ReviewerRoute,
         authorization |-> SignedIn("5"), cookie |-> <<>>, id |-> i,
         body |-> [NoBodyFields EXCEPT !.user = "4"]] : i \in 1..MaxReviews}

\* runs of addReview and updateReview requests on two connections
NextUnique ==
  \/ \E c \in Calls :
       \/ \E r \in UniqueRequests : Arrive(c, r)
       \/ Protect(c)
       \/ Authorize(c)
       \/ AddReviewFindById(c)
       \/ AddReviewCreate(c)
       \/ ReviewFindById(c)
       \/ UpdateReviewUpdate(c)
       \/ UpdateReviewSave(c)
  \/ \E t \in BagToSet(tasks) :
       GetAverageRatingAggregate(t) \/ GetAverageRatingUpdate(t)

InitUnique == docs = <<>> /\ InitRequest /\ InitStore(SubSeq(SeedBootcamps, 1, 1), <<>>)

SpecUnique == InitUnique /\ [][NextUnique]_vars

\* a bootcamp with one review, of user 4
SeedReviewed ==
  [bs |-> <<[SeedBootcamps[1] EXCEPT !.averageRating = [sum |-> 1, n |-> 1]]>>,
   rs |-> <<[bootcamp |-> 1, user |-> "4", rating |-> 1, live |-> TRUE]>>]

\* PUT and DELETE /api/v1/reviews/1 by its author and by another user; a
\* body changes the rating or names the other user as the author
AuthorRequests ==
  {[op |-> o, roles |-> ReviewerRoute, authorization |-> SignedIn(u),
    cookie |-> <<>>, id |-> 1, body |-> b] :
     o \in {"updateReview", "deleteReview"}, u \in {"4", "5"},
     b \in {[NoBodyFields EXCEPT !.rating = 3], [NoBodyFields EXCEPT !.user = "5"]}}

\* runs of updateReview and deleteReview requests on two connections
NextAuthor ==
  \/ \E c \in Calls :
       \/ \E r \in AuthorRequests : Arrive(c, r)
       \/ Protect(c)
       \/ Authorize(c)
       \/ ReviewFindById(c)
       \/ UpdateReviewUpdate(c)
       \/ UpdateReviewSave(c)
       \/ DeleteReviewRemove(c)
  \/ \E t \in BagToSet(tasks) :
       GetAverageRatingAggregate(t) \/ GetAverageRatingUpdate(t)

InitAuthor ==
  docs = <<>> /\ InitRequest /\ InitStore(SeedReviewed.bs, SeedReviewed.rs)

SpecAuthor == InitAuthor /\ [][NextAuthor]_vars

\* tokens: of a publisher, the admin, a user and an id no user has; signed
\* with the secret or another key; valid or expired; and a malformed one
JwtTokens ==
  {JwtSign(id, key, exp) : id \in {"1", "3", "4", "9"}, key \in {JWT_SECRET, "x"},
                           exp \in {"v", "e"}}
  \cup {<<"1">>}

\* requests to a publisher route and to a reviewer route (there also with
\* a rating out of range): without
\* credentials, with a Bearer header without a token, with a token in a
\* Bearer header, in a Basic header, in the cookie
AuthRequests ==
  {[op |-> rt.op, roles |-> rt.roles, authorization |-> h, cookie |-> k,
    id |-> 1, body |-> [NoBodyFields EXCEPT !.name = "z", !.rating = rt.rating]] :
     rt \in {[op |-> "createBootcamp", roles |-> PublisherRoute, rating |-> 0],
             [op |-> "addReview", roles |-> ReviewerRoute, rating |-> 1],
             [op |-> "addReview", roles |-> ReviewerRoute, rating |-> 11]},
     h \in {<<>>, BEARER, <<"B", "a", "s", "i", "c", " ">> \o JwtSign("1", JWT_SECRET, "v")}
           \cup {BEARER \o <<" ">> \o t : t \in JwtTokens},
     k \in {<<>>, JwtSign("1", JWT_SECRET, "v"), JwtSign("4", JWT_SECRET, "v"),
            JwtSign("3", "x", "v")}}

\* runs of one request after the other through protect and authorize
NextAuth ==
  \/ \E r \in AuthRequests : Arrive(1, r)
  \/ Protect(1)
  \/ Authorize(1)
  \/ CreateBootcampFindOne(1)
  \/ CreateBootcampCreate(1)
  \/ AddReviewFindById(1)
  \/ AddReviewCreate(1)
  \/ \E t \in BagToSet(tasks) :
       GetAverageRatingAggregate(t) \/ GetAverageRatingUpdate(t)

InitAuth == docs = <<>> /\ InitRequest /\ InitStore(SeedBootcamps, <<>>)

SpecAuth == InitAuth /\ [][NextAuth]_vars

\* POST /api/v1/auth/login with and without email and password, of a user
\* and of an email nobody has
LoginRequests ==
  {[op |-> "login", email |-> e, password |-> p, resettoken |-> 0] :
     e \in {<<>>, <<"4", "@">>, <<"9", "@">>}, p \in {"", "p", "q"}}

InitLogin == docs = <<>> /\ InitRequest /\ InitStore(<<>>, <<>>)

\* login runs on two connections
NextLogin ==
  \E c \in Calls :
    \/ \E r \in LoginRequests : AuthArrive(c, r)
    \/ Login(c)
    \/ LoginFindOne(c)

SpecLogin == InitLogin /\ [][NextLogin]_vars

\* POST /api/v1/auth/forgotpassword of two users and of an email nobody
\* has
ForgotRequests ==
  {[op |-> "forgotPassword", email |-> e, password |-> "", resettoken |-> 0] :
     e \in {<<"4", "@">>, <<"5", "@">>, <<"9", "@">>}}

\* PUT /api/v1/auth/resetpassword/:resettoken with and without a password
ResetRequests ==
  {[op |-> "resetPassword", email |-> <<>>, password |-> p, resettoken |-> t] :
     p \in {"", "q"}, t \in 0..MaxMails}

InitReset == docs = <<>> /\ InitRequest /\ InitStore(<<>>, <<>>)

\* reset runs: the first connection asks for tokens and resets, the second
\* resets, while time passes
NextReset ==
  \/ \E r \in ForgotRequests : AuthArrive(1, r)
  \/ \E c \in Calls :
       \/ \E r \in ResetRequests : AuthArrive(c, r)
       \/ ForgotPasswordFindOne(c)
       \/ ForgotPasswordSave(c)
       \/ \E delivered \in BOOLEAN : ForgotPasswordSendEmail(c, delivered)
       \/ ForgotPasswordClear(c)
       \/ ResetPasswordFindOne(c)
       \/ ResetPasswordSave(c)
  \/ Tick

SpecReset == InitReset /\ [][NextReset]_vars

\* PUT /api/v1/bootcamps/:id/photo by the owner, another publisher and the
\* admin, for a bootcamp that exists and one that does not, with and
\* without body fields, with an image, a large image, a document, no file
PhotoRequests ==
  {[op |-> "bootcampPhotoUpload", roles |-> PublisherRoute,
    authorization |-> SignedIn(u), cookie |-> <<>>, id |-> i, body |-> b,
    file |-> f] :
     u \in {"1", "2", "3"}, i \in {1, 3},
     b \in {NoBodyFields, [NoBodyFields EXCEPT !.name = "z"],
            [NoBodyFields EXCEPT !.name = "y"],
            [NoBodyFields EXCEPT !.user = "2"]},
     f \in {NoFile, [present |-> TRUE, mimetype |-> "application/pdf",
                     size |-> 1, ext |-> ".pdf"]}
           \cup {[present |-> TRUE, mimetype |-> "image/jpeg", size |-> s,
                  ext |-> ".jpg"] :
                   s \in {MAX_FILE_UPLOAD, MAX_FILE_UPLOAD + 1}}}

InitPhoto == docs = <<>> /\ InitRequest /\ InitStore(SeedBootcamps, <<>>)

\* upload runs, one request after the other
NextPhoto ==
  \/ \E r \in PhotoRequests : Arrive(1, r)
  \/ Protect(1)
  \/ Authorize(1)
  \/ BootcampFindById(1)
  \/ PhotoUploadUpdate(1)

SpecPhoto == InitPhoto /\ [][NextPhoto]_vars

----------------------------------------------------------------------------
(* Properties *)

Sent == pc = "done"
Links == DOMAIN resp.body.pagination

\* the request has passed the translation: model.find was given findArg
Translated == pc \in {"count", "data", "done"}

\* the request parameters minus select, sort, page, limit
FilterParams ==
  SelectSeq(req.query, LAMBDA m : m.key \notin {SELECT, SORT, PAGE, LIMIT})

\* C1: in every envelope, `next` is present iff page*limit < total and
\* `prev` iff (page-1)*limit > 0, page and limit being the effective values
\* and total the count obtained; next is {page+1, limit}, prev {page-1, limit}.
C1_PaginationLinks ==
  Sent =>
    /\ ("next" \in Links) <=> (plan.page * plan.limit < total)
    /\ ("prev" \in Links) <=> ((plan.page - 1) * plan.limit > 0)
    /\ "next" \in Links =>
         resp.body.pagination["next"] = [page |-> plan.page + 1, limit |-> plan.limit]
    /\ "prev" \in Links =>
         resp.body.pagination["prev"] = [page |-> plan.page - 1, limit |-> plan.limit]

\* page 2 of three documents, one per page: an envelope with both links
C1_Witness ==
  /\ Sent
  /\ Links = {"next", "prev"}
  /\ plan.page = 2
  /\ total = 3

\* C2: whatever the page and limit parameters are, the effective page and
\* limit are both >= 1 and the skip offset is never negative.
C2_WindowPositive ==
  pc \in {"count", "data", "done"} =>
    /\ plan.page >= 1
    /\ plan.limit >= 1
    /\ plan.startIndex >= 0

\* C3: when the store rejects the count or the data query, the caller gets
\* an error response and the process keeps running: the rejection never
\* reaches the unhandledRejection handler.
C3_StoreRejectionHandled ==
  failure = "store" =>
    /\ process = "running"
    /\ pc # "exit"
    /\ pc # "rejected" => resp.status >= 400

\* The rewritten filter string always parses: the regex only puts "$" in
\* front of letters inside string literals.
TranslationAlwaysParses == failure # "SyntaxError"

\* the values of a filter, the operator keys left aside
ValuesOf(filter) ==
  [k \in 1..Len(filter) |->
     IF filter[k].val.t = "str" THEN filter[k].val.v
     ELSE [j \in 1..Len(filter[k].val.m) |-> filter[k].val.m[j].val.v]]

\* C5: token rewriting leaves every filter value as the client sent it,
\* also a value that contains gt, gte, lt, lte or in as a whole word.
C5_ValuesUntouched ==
  Translated => ValuesOf(findArg) = ValuesOf(FilterParams)

\* C6: field[op]=v reaches find as field: {$op: v}, and for cost[lte]=v
\* every returned document has cost <= v.
C6_OperatorTagged ==
  Translated =>
    \A k \in 1..Len(FilterParams) :
      LET m == FilterParams[k] IN
      (m.val.t = "obj" /\ Len(m.val.m) = 1 /\ m.val.m[1].key \in Ops) =>
        /\ findArg[k] =
             OpParam(m.key, <<"$">> \o m.val.m[1].key, m.val.m[1].val.v)
        /\ (/\ Sent
            /\ m.key = COST
            /\ m.val.m[1].key = <<"l", "t", "e">>
            /\ ~CastNumber(m.val.m[1].val.v).err) =>
             \A j \in 1..Len(resp.body.data) :
               docs[resp.body.data[j]._id].cost <= CastNumber(m.val.m[1].val.v).n

\* the maximal runs of word characters of a text
WordsOf(s) ==
  {SubSeq(s, r[1], r[2]) :
     r \in {x \in (1..Len(s)) \X (1..Len(s)) :
              /\ x[1] <= x[2]
              /\ \A k \in x[1]..x[2] : IsWordChar(s[k])
              /\ (x[1] = 1 \/ ~IsWordChar(s[x[1] - 1]))
              /\ (x[2] = Len(s) \/ ~IsWordChar(s[x[2] + 1]))}}

HasTokenWord(s) == WordsOf(s) \cap Ops # {}

\* no operator token is a whole word of any key or value of the filter
TokenFree(filter) ==
  \A k \in 1..Len(filter) :
    /\ ~HasTokenWord(filter[k].key)
    /\ IF filter[k].val.t = "str" THEN ~HasTokenWord(filter[k].val.v)
       ELSE \A j \in 1..Len(filter[k].val.m) :
              /\ ~HasTokenWord(filter[k].val.m[j].key)
              /\ ~HasTokenWord(filter[k].val.m[j].val.v)

\* C7: a filter without operator tokens comes back from serializing,
\* rewriting and parsing as the original equality filter.
C7_RoundTrip ==
  (pc # "idle" /\ TokenFree(FilterParams)) =>
    /\ failure # "SyntaxError"
    /\ Translated => findArg = FilterParams

\* a token-free filter whose value holds "in" inside a longer word, or a
\* quote, next to reserved parameters that were removed
C7_Witness ==
  /\ Translated
  /\ TokenFree(FilterParams)
  /\ FilterParams # <<>>
  /\ \E k \in 1..Len(FilterParams) :
       /\ FilterParams[k].val.t = "str"
       /\ \E i \in 1..Len(FilterParams[k].val.v) :
            StartsAt(FilterParams[k].val.v, i, <<"i", "n">>)

\* C8 as stated: an envelope without documents has success true, count 0
\* and neither link.
C8_EmptyHasNoLinks ==
  (Sent /\ resp.body.data = <<>>) =>
    /\ resp.status = 200
    /\ resp.body.success
    /\ resp.body.count = 0
    /\ Links = {}

\* C8, amended: an envelope without documents has success true and count 0;
\* its links follow the window and the unfiltered total as in every other
\* envelope: next iff page*limit < total, prev iff (page-1)*limit > 0.
C8_EmptyEnvelope ==
  (Sent /\ resp.body.data = <<>>) =>
    /\ resp.status = 200
    /\ resp.body.success
    /\ resp.body.count = 0
    /\ ("next" \in Links) <=> (plan.page * plan.limit < total)
    /\ ("prev" \in Links) <=> ((plan.page - 1) * plan.limit > 0)

\* the filter matches nothing, and the envelope still has a next link
C8_Witness ==
  /\ Sent
  /\ resp.body.data = <<>>
  /\ findArg # <<>>
  /\ plan.page = 1
  /\ "next" \in Links

\* C9: the total behind the links is the count of the whole collection:
\* two requests with equal page and limit against one collection state get
\* the same pagination object, whatever their filters.
C9_PaginationIgnoresFilter ==
  Sent =>
    /\ total = Len(docs)
    /\ (prev.set /\ prev.page = plan.page /\ prev.limit = plan.limit) =>
         resp.body.pagination = prev.pagination

\* two requests with different filters, the second matching fewer
\* documents than there are, with the same links
C9_Witness ==
  /\ Sent
  /\ prev.set
  /\ prev.page = plan.page
  /\ prev.limit = plan.limit
  /\ prev.filter = <<>>
  /\ findArg # <<>>
  /\ Len(Find(docs, findArg)) < Len(docs)
  /\ "next" \in Links

\* positions a+1..b of a sequence, as far as it reaches
Positions(seq, a, b) ==
  [k \in 1..((IF b < Len(seq) THEN b ELSE Len(seq)) - a) |-> seq[a + k]]

\* C10: data is the documents at positions [(page-1)*limit, page*limit) of
\* the filtered, sorted sequence; count is its length and at most limit.
C10_DataIsWindow ==
  Sent =>
    LET all == Sorted(docs, findArg, plan.sortBy)
        want == Positions(all, (plan.page - 1) * plan.limit,
                          plan.page * plan.limit)
    IN /\ Len(resp.body.data) = Len(want)
       /\ \A k \in 1..Len(want) : resp.body.data[k]._id = want[k]._id
       /\ resp.body.count = Len(resp.body.data)
       /\ resp.body.count <= plan.limit

\* the text is an optionally signed decimal integer
IsIntegerText(s) ==
  LET j == IF s # <<>> /\ s[1] \in {"-", "+"} THEN 2 ELSE 1
  IN j <= Len(s) /\ \A k \in j..Len(s) : IsDigit(s[k])

\* the text starts, after blanks and a sign, with a digit
LeadsWithInteger(s) ==
  LET i == SkipSpaces(s, 1)
      j == IF i <= Len(s) /\ s[i] \in {"-", "+"} THEN i + 1 ELSE i
  IN j <= Len(s) /\ IsDigit(s[j])

\* the parameter is absent, or is not a text for which ok holds
AbsentOrNot(key, ok(_)) ==
  \/ ~HasKey(req.query, key)
  \/ Get(req.query, key).t # "str"
  \/ ~ok(Get(req.query, key).v)

\* the middleware itself raised nothing, and what it sent is a success
\* envelope
NoErrorRaised ==
  /\ failure \in {"none", "store"}
  /\ Sent => resp.status = 200 /\ resp.body.success

ListedKeys ==
  LET ws == Split(Get(req.query, SORT).v, ",")
  IN [k \in 1..Len(ws) |->
        IF ws[k] # <<>> /\ ws[k][1] = "-"
        THEN [path |-> Tail(ws[k]), desc |-> TRUE]
        ELSE [path |-> ws[k], desc |-> FALSE]]

\* the stored document behind the k-th element of data
DataDoc(k) == Stored(docs)[resp.body.data[k]._id]

\* data is in the order of the keys: of two elements the later one is not
\* ahead of the earlier one on the first key on which they differ
DataOrderedBy(keys) ==
  \A i, j \in 1..Len(resp.body.data) :
    i < j =>
      \A k \in 1..Len(keys) :
        (\A h \in 1..(k - 1) : CmpOn(DataDoc(i), DataDoc(j), keys[h].path) = 0) =>
          IF keys[k].desc
          THEN CmpOn(DataDoc(i), DataDoc(j), keys[k].path) >= 0
          ELSE CmpOn(DataDoc(i), DataDoc(j), keys[k].path) <= 0

CreatedAtDescending == <<[path |-> CREATEDAT, desc |-> TRUE]>>

\* every key the data query sorts on is one of the listed keys
DefaultNotApplied ==
  LET applied == SortKeys(plan.sortBy)
  IN \A k \in 1..Len(applied) :
       \E j \in 1..Len(ListedKeys) : ListedKeys[j] = applied[k]

\* C12 as stated: without a sort parameter data is ordered by creation
\* time descending; with a sort parameter data is ordered by its
\* comma-separated keys in the listed order, "-" meaning descending, and
\* the default ordering is not applied; sort=-createdAt gives data that is
\* non-increasing by creation time.
C12_SortPresentOrDefault ==
  Sent =>
    IF HasKey(req.query, SORT)
    THEN /\ DataOrderedBy(ListedKeys)
         /\ DefaultNotApplied
         /\ Get(req.query, SORT).v = DefaultSort =>
              \A i, j \in 1..Len(resp.body.data) :
                i < j => DataDoc(i).createdAt >= DataDoc(j).createdAt
    ELSE /\ SortKeys(plan.sortBy) = CreatedAtDescending
         /\ DataOrderedBy(CreatedAtDescending)

\* C12, amended: without a sort parameter, or with an empty one, data is
\* ordered by creation time descending; with a non-empty sort parameter
\* data is ordered by its comma-separated keys in the listed order, "-"
\* meaning descending, and the default ordering is not applied;
\* sort=-createdAt gives data that is non-increasing by creation time.
C12_SortGivenOrDefault ==
  Sent =>
    IF HasKey(req.query, SORT) /\ Get(req.query, SORT).v # <<>>
    THEN /\ DataOrderedBy(ListedKeys)
         /\ SortKeys(plan.sortBy) = ListedKeys
         /\ Get(req.query, SORT).v = DefaultSort =>
              \A i, j \in 1..Len(resp.body.data) :
                i < j => DataDoc(i).createdAt >= DataDoc(j).createdAt
    ELSE /\ SortKeys(plan.sortBy) = CreatedAtDescending
         /\ DataOrderedBy(CreatedAtDescending)

\* sort=-cost,name with two documents of one cost in data: the second key
\* decides, and it puts the later document first
C12_Witness ==
  /\ Sent
  /\ HasKey(req.query, SORT)
  /\ Len(ListedKeys) = 2
  /\ ListedKeys[1] = [path |-> COST, desc |-> TRUE]
  /\ \E i \in 1..(Len(resp.body.data) - 1) :
       /\ DataDoc(i).cost = DataDoc(i + 1).cost
       /\ DataDoc(i).name # DataDoc(i + 1).name
       /\ DataDoc(i).createdAt > DataDoc(i + 1).createdAt

\* the queries an invocation has issued so far, by its position
QueriesIssued ==
  /\ pc = "idle" => queries = <<>>
  /\ pc = "count" => queries = <<"countDocuments">>
  /\ pc \in {"data", "done"} => queries = <<"countDocuments", "find">>
  /\ Len(queries) <= 2

Owned(u) == {i \in 1..Len(bootcamps) : bootcamps[i].live /\ bootcamps[i].user = u}

\* C14: in every reachable state of runs of createBootcamp requests, also
\* of two concurrent requests of one user, a user who is not an admin owns
\* at most one bootcamp; and a createBootcamp of a non-admin who owns one
\* is answered with 400 and creates nothing.
C14_OneBootcampPerPublisher ==
  /\ [](\A u \in DOMAIN users :
          users[u].role # "admin" => Cardinality(Owned(u)) <= 1)
  /\ [][\A c \in Calls :
          (/\ calls[c].pc = "handler"
           /\ calls'[c].pc # "handler"
           /\ calls[c].op = "createBootcamp"
           /\ calls[c].user.role # "admin"
           /\ Owned(calls[c].user.id) # {}) =>
            /\ calls'[c].pc = "sent"
            /\ calls'[c].status = 400
            /\ bootcamps' = bootcamps]_vars

\* no request is in flight and no recomputation is running
Quiescent ==
  /\ \A c \in Calls : calls[c].pc \in {"free", "sent"}
  /\ tasks = EmptyBag

\* C15: once every review request and every recomputation it started has
\* completed, the averageRating of each bootcamp is the mean of the
\* ratings of the reviews that reference it, or 0 when there is none (a
\* bootcamp that never had a review has no averageRating yet).
C15_AverageIsMean ==
  Quiescent =>
    \A b \in 1..Len(bootcamps) :
      bootcamps[b].live =>
        LET stored == bootcamps[b].averageRating
            mean == AverageRating(b)
        IN IF stored = Unset THEN mean.sum = 0
           ELSE stored.sum * mean.n = mean.sum * stored.n

\* C16: updateBootcamp and deleteBootcamp change or remove a bootcamp only
\* for a requester who is its owner or an admin; for any other requester
\* the answer is 401 and the bootcamps are unchanged.
C16_OwnerOrAdminOnly ==
  [][\A c \in Calls :
       (/\ calls'[c] # calls[c]
        /\ calls[c].op \in {"updateBootcamp", "deleteBootcamp"}
        /\ LiveBootcamp(calls[c].id)) =>
         LET call == calls[c]
             other == NotOwnerNorAdmin(bootcamps[call.id].user, call.user)
         IN /\ bootcamps' # bootcamps => ~other
            /\ (call.pc = "handler" /\ other) =>
                 /\ calls'[c].pc = "sent"
                 /\ calls'[c].status = 401
                 /\ bootcamps' = bootcamps]_vars

\* C17: updateReview and deleteReview change or remove a review only for a
\* requester who is its author or an admin; for any other requester the
\* answer is 401, and the reviews and every averageRating are unchanged
\* and no recomputation is started.
C17_AuthorOrAdminOnly ==
  [][\A c \in Calls :
       (/\ calls'[c] # calls[c]
        /\ calls[c].op \in {"updateReview", "deleteReview"}
        /\ LiveReview(calls[c].id)) =>
         LET call == calls[c]
             other == NotOwnerNorAdmin(reviews[call.id].user, call.user)
         IN /\ reviews' # reviews => ~other
            /\ (call.pc = "handler" /\ other) =>
                 /\ calls'[c].pc = "sent"
                 /\ calls'[c].status = 401
                 /\ reviews' = reviews
                 /\ bootcamps' = bootcamps
                 /\ tasks' = tasks]_vars

\* C18: no two stored reviews have the same bootcamp and the same user,
\* in every state of runs of addReview and updateReview requests; and an
\* addReview of a user who has a review of the bootcamp is answered with
\* an error and stores nothing.
C18_OneReviewPerUserAndBootcamp ==
  /\ [](\A i, j \in 1..Len(reviews) :
          (i # j /\ reviews[i].live /\ reviews[j].live) =>
            <<reviews[i].bootcamp, reviews[i].user>>
              # <<reviews[j].bootcamp, reviews[j].user>>)
  /\ [][\A c \in Calls :
          (/\ calls[c].pc = "createReview"
           /\ calls'[c].pc # "createReview"
           /\ \E i \in 1..Len(reviews) :
                /\ reviews[i].live
                /\ reviews[i].bootcamp = calls[c].id
                /\ reviews[i].user = calls[c].user.id) =>
            /\ calls'[c].pc = "sent"
            /\ calls'[c].status = 400
            /\ reviews' = reviews]_vars

\* both users have a review of the bootcamp, the second addReview of one
\* of them was refused, and so was the update that names the other user
\* as the author of a review
C18_Witness ==
  /\ Len(reviews) = 2
  /\ reviews[1].user # reviews[2].user
  /\ calls[1].op = "addReview" /\ calls[1].pc = "sent" /\ calls[1].status = 400
  /\ calls[2].op = "updateReview" /\ calls[2].pc = "sent"
  /\ calls[2].status = 400

\* the request carries a token that verifies: after "Bearer " in the
\* Authorization header, or, when that header does not start with Bearer,
\* in the token cookie
CarriesVerifiedToken(call) ==
  \E id \in {"1", "3", "4", "9"} :
    LET t == JwtSign(id, JWT_SECRET, "v")
    IN \/ call.authorization = BEARER \o <<" ">> \o t
       \/ /\ ~StartsAt(call.authorization, 1, BEARER)
          /\ call.cookie = t

\* C19: protect calls next() only for a request that carries a token that
\* verifies; any other request is answered with 401, its req.user is not
\* set and its route handler does not run.
C19_ProtectGuards ==
  \A c \in Calls :
    (calls[c].pc \notin {"free", "protect"} /\ ~CarriesVerifiedToken(calls[c])) =>
      /\ calls[c].pc = "sent"
      /\ calls[c].status = 401
      /\ ~calls[c].user.set
      /\ ~calls[c].ran

\* a request without Authorization header whose cookie holds a verified
\* token was given its user and ran its handler
C19_Witness ==
  /\ calls[1].ran
  /\ calls[1].authorization = <<>>
  /\ calls[1].cookie # <<>>
  /\ calls[1].user.set
  /\ calls[1].status = 201

\* C20: once authorize has acted on a request whose req.user is a user, the
\* request has entered its route handler iff the user's role is one of the
\* route's roles; else it is answered with 403 and the handler does not
\* run.
C20_AuthorizeByRole ==
  \A c \in Calls :
    LET call == calls[c] IN
    (call.user.set /\ ~call.user.null /\ call.pc # "authorize") =>
      IF call.user.role \in call.roles
      THEN call.pc = "handler" \/ call.ran
      ELSE call.pc = "sent" /\ call.status = 403 /\ ~call.ran

\* a publisher was refused on the reviewer route
C20_Witness ==
  /\ calls[1].pc = "sent"
  /\ calls[1].status = 403
  /\ calls[1].user.role = "publisher"
  /\ calls[1].roles = ReviewerRoute
  /\ ~calls[1].ran

\* C21: a login is answered with a token in the body and in the cookie
\* exactly when its body has email and password, a user has the email and
\* the password matches the stored hash; without email or password the
\* answer is 400, with an unknown email or a wrong password 401, and then
\* no token is issued and no cookie is set.
C21_LoginIssuesToken ==
  \A c \in Calls :
    LET a == auth[c]
        complete == a.email # <<>> /\ a.password # ""
        matching == {u \in DOMAIN users :
                       /\ users[u].email = a.email
                       /\ users[u].password = Hash(a.password)}
    IN a.op = "login" =>
         IF a.pc = "sent" /\ complete /\ matching # {}
         THEN /\ a.status = 200
              /\ \E u \in matching : /\ a.jwt = JwtSign(u, JWT_SECRET, "v")
                                      /\ a.cookie = a.jwt
         ELSE /\ a.jwt = <<>>
              /\ a.cookie = <<>>
              /\ a.pc = "sent" =>
                   a.status = IF complete THEN 401 ELSE 400

\* one login got its token, one with a wrong password did not
C21_Witness ==
  /\ auth[1].op = "login" /\ auth[1].pc = "sent" /\ auth[1].status = 200
  /\ auth[1].cookie = JwtSign("4", JWT_SECRET, "v")
  /\ auth[2].op = "login" /\ auth[2].pc = "sent" /\ auth[2].status = 401
  /\ auth[2].email = <<"4", "@">> /\ auth[2].password = "q"

\* C26: a handler of the auth controller writes one response per request:
\* no second response is written to res, and once a response has been
\* written no error is passed to next().
C26_OneResponse ==
  \A c \in Calls :
    /\ auth[c].writes <= 1
    /\ auth[c].pc = "sent" => auth[c].writes = 1
    /\ auth[c].nexts <= 1
    /\ (auth[c].nexts = 1 /\ auth[c].pc = "sent") => auth[c].status >= 400

\* the users whose stored reset token is the hash of the token and has not
\* expired
Resettable(token) ==
  {u \in DOMAIN users :
     /\ users[u].resetPasswordToken = Sha256(token)
     /\ now < users[u].resetPasswordExpire}

C25_FailedMailClearsToken ==
  /\ [](\A t \in 1..Len(mails) :
          mails[t].fate = "failed" =>
            /\ ~mails[t].used
            /\ \A u \in DOMAIN users :
                 users[u].resetPasswordToken # Sha256(t))
  /\ [][\A c \in Calls :
          (/\ auth[c].op = "forgotPassword"
           /\ auth[c].pc = "clearToken"
           /\ auth'[c].pc # "clearToken") =>
            /\ auth'[c].pc = "sent"
            /\ auth'[c].status = 500
            /\ users'[auth[c].user].resetPasswordToken = Undefined
            /\ users'[auth[c].user].resetPasswordExpire = 0]_vars

\* the mail of a request failed, and a resetPassword with its token was
\* refused before the token would have expired
C25_Witness ==
  /\ Len(mails) >= 1
  /\ mails[1].fate = "failed"
  /\ now < mails[1].at + TenMinutes
  /\ auth[1].op = "forgotPassword" /\ auth[1].pc = "sent"
  /\ auth[1].status = 500 /\ auth[1].token = 1
  /\ auth[2].op = "resetPassword" /\ auth[2].pc = "sent"
  /\ auth[2].resettoken = 1 /\ auth[2].status = 400

\* C28: a resetPassword that arrives after a resetPassword with the same
\* token has succeeded is answered with 400 and changes no user.
C28_TokenIsSingleUse ==
  [][\A c \in Calls :
       (auth[c].late /\ auth'[c] # auth[c] /\ auth'[c].pc # "handler") =>
         /\ auth[c].pc = "handler"
         /\ auth'[c].pc = "sent"
         /\ auth'[c].status = 400
         /\ users' = users]_vars

\* a second reset with a used token was refused while the token would
\* still have been valid
C28_Witness ==
  /\ Len(mails) >= 1
  /\ mails[1].used
  /\ now < mails[1].at + TenMinutes
  /\ auth[2].op = "resetPassword" /\ auth[2].late /\ auth[2].resettoken = 1
  /\ auth[2].password = "q"
  /\ auth[2].pc = "sent" /\ auth[2].status = 400
  /\ users[mails[1].user].password = Hash("q")

\* C27: when protect has passed a request on, req.user is a user of the
\* store: a request whose token verifies but names no user is answered
\* with 401, and the middlewares and handlers after protect never see a
\* null req.user.
C27_ProtectNeverPassesNull ==
  \A c \in Calls :
    LET call == calls[c]
        decoded == JwtVerify(TokenOf(call), JWT_SECRET)
    IN /\ call.user.set => ~call.user.null
       /\ (/\ call.pc \notin {"free", "protect"}
           /\ decoded.ok
           /\ decoded.id \notin DOMAIN users) =>
            call.pc = "sent" /\ call.status = 401

\* the file of the request is an image no larger than MAX_FILE_UPLOAD
SmallImage(file) ==
  file.present /\ file.mimetype = "image/jpeg" /\ file.size <= MAX_FILE_UPLOAD

\* C23: bootcampPhotoUpload of the owner or an admin with an image no
\* larger than MAX_FILE_UPLOAD (and no body fields) puts the file into the
\* upload directory as photo_<id><ext>, sets the photo field of the
\* bootcamp to that name and answers 200.
C23_PhotoStored ==
  [][\A c \in Calls :
       (/\ calls[c].op = "bootcampPhotoUpload"
        /\ calls[c].pc = "photo"
        /\ calls'[c].pc = "sent"
        /\ calls[c].body = NoBodyFields
        /\ SmallImage(calls[c].file)
        /\ LiveBootcamp(calls[c].id)) =>
         LET name == PhotoName(calls[c].id, calls[c].file.ext)
         IN /\ calls'[c].status = 200
            /\ bootcamps'[calls[c].id].photo = name
            /\ name \in uploads']_vars

\* C29: a bootcampPhotoUpload that is answered with an error leaves the
\* bootcamps as they were, whatever its body holds.
C29_RejectedUploadWritesNothing ==
  [][\A c \in Calls :
       (/\ calls[c].op = "bootcampPhotoUpload"
        /\ calls[c].pc # "sent"
        /\ calls'[c].pc = "sent"
        /\ calls'[c].status # 200) =>
         bootcamps' = bootcamps]_vars

\* C24: the filter handed to find holds none of the keys select, sort, page
\* and limit, and holds every other top-level key of the request's query.
ReservedKeys == {SELECT, SORT, PAGE, LIMIT}

FindCalled == pc # "idle" /\ failure # "SyntaxError"

C24_FilterKeys ==
  FindCalled =>
    /\ Keys(findArg) \cap ReservedKeys = {}
    /\ (Keys(req.url) \ ReservedKeys) \subseteq Keys(findArg)

\* C30: when the store does not fail, the route with the middleware answers
\* with the status and the envelope of the inline getBootcamps.
Answered == pc \in {"done", "rejected", "exit"} /\ failure # "store"

C30_SameAsInline ==
  Answered =>
    LET inline == InlineGetBootcamps(req.url, total, docs)
    IN /\ resp.status = inline.status
       /\ resp.status = 200 => resp.body = inline.body

============================================================================
